---- MODULE Spec2Model ----
(***************************************************************************)
(* Verification model of two cores of upipe:                               *)
(*   - the MPEG-2 video framer  (lib/upipe-framers/upipe_mp2v_framer.c)    *)
(*   - the inline attribute dictionary (lib/upipe/udict_inline.c)          *)
(* Octets are the integers 0..255, a block is a sequence of octets, a      *)
(* pointer that may be NULL is a sequence of length 0 or 1.                *)
(***************************************************************************)
EXTENDS Integers, Sequences, FiniteSets, TLC

VARIABLES
    mp2vf,      \* struct upipe_mp2vf, the octets of its octet stream, and
                \* what its output pipe and its probe have received
    pc,         \* "idle": between two calls; "work": inside upipe_mp2vf_work
    stream,     \* the elementary stream the upstream pipe is going to send
    fed,        \* number of octets of stream already handed to input
    accepted,   \* the octets that input appended to the octet stream
    nflowdefs,  \* number of flow definitions handed to input
    nurefs,     \* number of payload urefs handed to input
    inputs,     \* the urefs and control calls given to the pipe, in order
    mgr,        \* struct udict_inline_mgr: sizes, pool of structures,
                \* references
    umems,      \* the umem objects that dictionaries have allocated
    udict,      \* struct udict_inline: buffer (used octets), umem size;
                \* where several dictionaries live (SpecDup), the sequence
                \* of them, each with its umem (index in umems) and size
    shadow,     \* what the caller of udict wrote: key -> <<size, value>>
    nops,       \* number of dictionary operations done
    lastop      \* the last dictionary operation and its result

vars == <<mp2vf, pc, stream, fed, accepted, nflowdefs, nurefs, inputs,
          mgr, umems, udict, shadow, nops, lastop>>

framer_vars ==
    <<mp2vf, pc, stream, fed, accepted, nflowdefs, nurefs, inputs>>
udict_vars == <<mgr, umems, udict, shadow, nops, lastop>>

(***************************************************************************)
(* Bounds of the model.                                                    *)
(***************************************************************************)
\* payload urefs the stream is cut into
MaxUrefs == 2
\* flow definitions handed to input
MaxFlowDefs == 1
\* payload urefs when upipe_mp2vf_work is taken one iteration at a time
MaxSteppedUrefs == 1

(***************************************************************************)
(* Generic helpers.                                                        *)
(***************************************************************************)
NULL == <<>>
Ptr(x) == <<x>>
Min(S) == CHOOSE x \in S : \A y \in S : x <= y
Drop(s, n) == SubSeq(s, n + 1, Len(s))
Take(s, n) == SubSeq(s, 1, n)
RECURSIVE Flatten(_)
Flatten(ss) == IF ss = <<>> THEN <<>> ELSE Head(ss) \o Flatten(Tail(ss))
SelectFrames(s) == SelectSeq(s, LAMBDA u : u.kind = "frame")
SelectFlowDefs(s) == SelectSeq(s, LAMBDA u : u.kind = "flow_def")
RECURSIVE Gcd(_, _)
Gcd(a, b) == IF b = 0 THEN a ELSE Gcd(b, a % b)

(***************************************************************************)
(* Constants of ISO/IEC 13818-2 as the framer uses them.                   *)
(***************************************************************************)
MP2VPIC_START_CODE == 0
MP2VPIC_LAST_CODE == 175
MP2VSEQ_START_CODE == 179
MP2VX_START_CODE == 181
MP2VEND_START_CODE == 183
MP2VGOP_START_CODE == 184
MP2VSEQ_HEADER_SIZE == 12
MP2VSEQX_HEADER_SIZE == 10
MP2VSEQDX_HEADER_SIZE == 9
MP2VSEQDX_COLOR_SIZE == 3
MP2VGOP_HEADER_SIZE == 8
MP2VPIC_HEADER_SIZE == 8
MP2VPICX_HEADER_SIZE == 9
MP2VX_ID_SEQX == 1
MP2VX_ID_SEQDX == 2
MP2VX_ID_PICX == 8
MP2VPIC_TYPE_I == 1
MP2VPIC_TYPE_P == 2
MP2VPIC_TYPE_B == 3
MP2VSEQ_ASPECT_SQUARE == 1
MP2VSEQ_ASPECT_4_3 == 2
MP2VSEQ_ASPECT_16_9 == 3
MP2VSEQ_ASPECT_2_21 == 4
MP2VSEQX_LEVEL_MASK == 15
MP2VSEQX_LEVEL_LOW == 10
MP2VSEQX_LEVEL_MAIN == 8
MP2VSEQX_LEVEL_HIGH1440 == 6
MP2VSEQX_LEVEL_HIGH == 4
MP2VSEQX_CHROMA_420 == 1
MP2VSEQX_CHROMA_422 == 2
MP2VSEQX_CHROMA_444 == 3
MP2VPICX_TOP_FIELD == 1
MP2VPICX_BOTTOM_FIELD == 2
MP2VPICX_FRAME_PICTURE == 3
UCLOCK_FREQ == 27000000
\* the all-ones sentinel of the timestamp registers, kept outside the range
\* of the timestamps of the model
UINT64_MAX == 0 - 1
\* the vbv_delay value meaning "not specified"
UINT16_MAX == 65535

\* a flow definition string is the sequence of its dot-terminated components
EXPECTED_FLOW_DEF == <<"block", "mpeg2video">>
FIND_START == <<0, 0, 1>>
FIND_GOP == <<0, 0, 1, MP2VGOP_START_CODE>>
FIND_EXTENSION == <<0, 0, 1, MP2VX_START_CODE>>

frame_rate_from_code ==
    << [num |-> 0, den |-> 0],
       [num |-> 24000, den |-> 1001], [num |-> 24, den |-> 1],
       [num |-> 25, den |-> 1], [num |-> 30000, den |-> 1001],
       [num |-> 30, den |-> 1], [num |-> 50, den |-> 1],
       [num |-> 60000, den |-> 1001], [num |-> 60, den |-> 1],
       [num |-> 15000, den |-> 1001],
       [num |-> 5000, den |-> 1001], [num |-> 10000, den |-> 1001],
       [num |-> 12000, den |-> 1001], [num |-> 15000, den |-> 1001],
       [num |-> 0, den |-> 0], [num |-> 0, den |-> 0] >>

(***************************************************************************)
(* Block buffers (ubuf_block / uref_block API, contract level).            *)
(***************************************************************************)
\* octet at a 0-based offset
At(block, offset) == block[offset + 1]
InRange(block, offset, size) == offset >= 0 /\ offset + size <= Len(block)

\* uref_block_find: scan from offset for the pattern.  On success offset is
\* the first octet of the match; otherwise it is the first candidate (a
\* match cut short by the end of the block) or the size of the block.
uref_block_find(block, offset, pat) ==
    LET cands == { i \in offset..(Len(block) - 1) :
                     \A j \in 0..(Len(pat) - 1) :
                        i + j < Len(block) => At(block, i + j) = pat[j + 1] }
    IN IF cands = {}
       THEN [found |-> FALSE,
             offset |-> IF offset > Len(block) THEN offset ELSE Len(block)]
       ELSE [found |-> Min(cands) + Len(pat) <= Len(block),
             offset |-> Min(cands)]

(***************************************************************************)
(* Octet-stream helper (UPIPE_HELPER_OCTET_STREAM).                        *)
(***************************************************************************)
TimestampNames ==
    {"pts_orig", "pts", "pts_sys", "dts_orig", "dts", "dts_sys"}

\* called whenever a uref is promoted to next_uref: its timestamps, when
\* present, replace the next_frame registers
upipe_mp2vf_promote_uref(w) ==
    [w EXCEPT !.next_frame_ts =
        [n \in TimestampNames |->
            IF w.next_uref[1].ts[n] # UINT64_MAX
            THEN w.next_uref[1].ts[n] ELSE @[n]]]

upipe_mp2vf_init_octet_stream(w) ==
    [w EXCEPT !.next_uref = NULL, !.urefs = <<>>, !.block = <<>>]

\* uref: [dict |-> attributes, block |-> octets]
upipe_mp2vf_append_octet_stream(w, uref) ==
    IF w.next_uref = NULL
    THEN upipe_mp2vf_promote_uref(
            [w EXCEPT !.next_uref = Ptr(uref.dict),
                      !.next_uref_size = Len(uref.block),
                      !.block = uref.block])
    ELSE [w EXCEPT !.block = @ \o uref.block,
                   !.urefs = Append(@, [dict |-> uref.dict,
                                        size |-> Len(uref.block)])]

RECURSIVE upipe_mp2vf_consume_octet_stream(_, _)
upipe_mp2vf_consume_octet_stream(w, consumed) ==
    IF consumed < w.next_uref_size
    THEN [w EXCEPT !.block = Drop(@, consumed),
                   !.next_uref_size = @ - consumed]
    ELSE IF w.urefs = <<>>
    THEN [w EXCEPT !.next_uref = NULL, !.block = <<>>, !.next_uref_size = 0]
    ELSE upipe_mp2vf_consume_octet_stream(
            upipe_mp2vf_promote_uref(
                [w EXCEPT !.block = Drop(@, w.next_uref_size),
                          !.next_uref = Ptr(Head(w.urefs).dict),
                          !.next_uref_size = Head(w.urefs).size,
                          !.urefs = Tail(@)]),
            consumed - w.next_uref_size)

(***************************************************************************)
(* Sync and output helpers (UPIPE_HELPER_SYNC, UPIPE_HELPER_OUTPUT).       *)
(***************************************************************************)
upipe_throw(w, event) == [w EXCEPT !.events = Append(@, event)]

upipe_mp2vf_sync_acquired(w) ==
    IF w.acquired THEN w
    ELSE upipe_throw([w EXCEPT !.acquired = TRUE], "sync_acquired")

upipe_mp2vf_sync_lost(w) ==
    IF ~w.acquired THEN w
    ELSE upipe_throw([w EXCEPT !.acquired = FALSE], "sync_lost")

\* flow_def: NULL or a pointer to the attributes of the flow definition
upipe_mp2vf_store_flow_def(w, flow_def) ==
    [w EXCEPT !.flow_def = flow_def, !.flow_def_sent = FALSE]

\* the flow definition goes first when it has not been sent yet; a uref
\* that no flow definition describes is freed
upipe_mp2vf_output(w, uref) ==
    LET w1 == IF ~w.flow_def_sent /\ w.flow_def # NULL
              THEN [w EXCEPT !.flow_def_sent = TRUE,
                             !.sink = Append(@, [kind |-> "flow_def",
                                                 dict |-> w.flow_def[1],
                                                 block |-> <<>>])]
              ELSE w
    IN IF ~w1.flow_def_sent THEN w1
       ELSE [w1 EXCEPT !.sink = Append(@, [kind |-> "frame",
                                           dict |-> uref.dict,
                                           block |-> uref.block])]

(***************************************************************************)
(* Header fields (bit layout of ISO/IEC 13818-2, as read by the framer).   *)
(***************************************************************************)
Shr(x, n) == x \div (2 ^ n)
Low(x, n) == x % (2 ^ n)

mp2vseq_get_horizontal(p) == At(p, 4) * 16 + Shr(At(p, 5), 4)
mp2vseq_get_vertical(p) == Low(At(p, 5), 4) * 256 + At(p, 6)
mp2vseq_get_aspect(p) == Shr(At(p, 7), 4)
mp2vseq_get_framerate(p) == Low(At(p, 7), 4)
mp2vseq_get_bitrate(p) == At(p, 8) * 1024 + At(p, 9) * 4 + Shr(At(p, 10), 6)
mp2vseq_get_vbvbuffer(p) == Low(At(p, 10), 5) * 32 + Shr(At(p, 11), 3)

mp2vseqx_get_profilelevel(p) == Low(At(p, 4), 4) * 16 + Shr(At(p, 5), 4)
mp2vseqx_get_progressive(p) == Low(Shr(At(p, 5), 3), 1) = 1
mp2vseqx_get_chroma(p) == Low(Shr(At(p, 5), 1), 2)
mp2vseqx_get_horizontal(p) == Low(At(p, 5), 1) * 2 + Shr(At(p, 6), 7)
mp2vseqx_get_vertical(p) == Low(Shr(At(p, 6), 5), 2)
mp2vseqx_get_bitrate(p) == Low(At(p, 6), 5) * 128 + Shr(At(p, 7), 1)
mp2vseqx_get_vbvbuffer(p) == At(p, 8)
mp2vseqx_get_lowdelay(p) == Shr(At(p, 9), 7) = 1
mp2vseqx_get_frameraten(p) == Low(Shr(At(p, 9), 5), 2)
mp2vseqx_get_framerated(p) == Low(At(p, 9), 5)

mp2vseqdx_get_horizontal(p) ==
    LET c == IF Low(At(p, 4), 1) = 1 THEN MP2VSEQDX_COLOR_SIZE ELSE 0
    IN At(p, 5 + c) * 64 + Shr(At(p, 6 + c), 2)
mp2vseqdx_get_vertical(p) ==
    LET c == IF Low(At(p, 4), 1) = 1 THEN MP2VSEQDX_COLOR_SIZE ELSE 0
    IN Low(At(p, 6 + c), 1) * 8192 + At(p, 7 + c) * 32 + Shr(At(p, 8 + c), 3)

mp2vgop_get_closedgop(p) == Low(Shr(At(p, 7), 6), 1) = 1
\* a reader that takes the bit of closed_gop for broken_link
mp2vgop_get_brokenlink_from_closedgop(p) == Low(Shr(At(p, 7), 6), 1) = 1
mp2vgop_get_brokenlink(p) == Low(Shr(At(p, 7), 5), 1) = 1

mp2vpic_get_temporalreference(p) == At(p, 4) * 4 + Shr(At(p, 5), 6)
mp2vpic_get_codingtype(p) == Low(Shr(At(p, 5), 3), 3)
mp2vpic_get_vbvdelay(p) ==
    Low(At(p, 5), 3) * 8192 + At(p, 6) * 32 + Shr(At(p, 7), 3)

mp2vpicx_get_intradc(p) == Low(Shr(At(p, 6), 2), 2)
mp2vpicx_get_structure(p) == Low(At(p, 6), 2)
mp2vpicx_get_tff(p) == Shr(At(p, 7), 7) = 1
mp2vpicx_get_rff(p) == Low(Shr(At(p, 7), 1), 1) = 1
mp2vpicx_get_progressive(p) == Shr(At(p, 8), 7) = 1

urational_simplify(r) ==
    LET g == Gcd(r.num, r.den)
    IN IF g = 0 THEN r ELSE [num |-> r.num \div g, den |-> r.den \div g]

\* bitrate * 400 / 8 in 32-bit unsigned arithmetic:
\* (bitrate * 400) mod 2^32 = 16 * ((bitrate * 25) mod 2^28)
OctetRate(bitrate) ==
    LET bh == bitrate \div 16384
        bl == bitrate % 16384
    IN 2 * ((((bh * 25) % 16384) * 16384 + bl * 25) % 268435456)

\* vbvbuffer * 16 * 1024 / 8 in 32-bit unsigned arithmetic:
\* (vbvbuffer * 2^14) mod 2^32 = 2^14 * (vbvbuffer mod 2^18)
CpbBuffer(vbvbuffer) == (vbvbuffer % 262144) * (16384 \div 8)

(***************************************************************************)
(* Attribute sets of the urefs of the model.                               *)
(***************************************************************************)
NoTimestamps == [n \in TimestampNames |-> UINT64_MAX]

\* attributes of a payload uref; a numeric attribute is absent when -1
EmptyDict ==
    [ts |-> NoTimestamps, disc |-> FALSE, error |-> FALSE,
     random |-> FALSE, systime |-> 0 - 1, systime_rap |-> 0 - 1,
     num |-> 0 - 1, type |-> 0 - 1, vbv_delay |-> 0 - 1,
     duration |-> 0 - 1,
     tf |-> FALSE, bf |-> FALSE, tff |-> FALSE, progressive |-> FALSE]

\* attributes of a flow definition
FlowDict(def) ==
    [def |-> def, profilelevel |-> 0 - 1, max_octetrate |-> 0 - 1,
     progressive |-> FALSE, macropixel |-> 0 - 1, planes |-> <<>>,
     lowdelay |-> FALSE, hsize |-> 0 - 1, vsize |-> 0 - 1,
     aspect |-> [num |-> 0, den |-> 0], fps |-> [num |-> 0, den |-> 0],
     octetrate |-> 0 - 1, cpb_buffer |-> 0 - 1,
     hsizevis |-> 0 - 1, vsizevis |-> 0 - 1]

(***************************************************************************)
(* Sequence header handling.                                               *)
(***************************************************************************)
Ret(w, ret) == [w |-> w, ret |-> ret]

\* finds an extension start code in a frame and returns its identifier
upipe_mp2vf_find_ext(block, offset) ==
    LET r == uref_block_find(block, offset, FIND_EXTENSION)
        ok == r.found /\ InRange(block, r.offset + 4, 1)
    IN [found |-> ok, offset |-> r.offset,
        start |-> IF ok THEN Shr(At(block, r.offset + 4), 4) ELSE 0]

PlanesOf(chroma) ==
    IF chroma = MP2VSEQX_CHROMA_420
    THEN << <<1, 1, 1, "y8">>, <<2, 2, 1, "u8">>, <<2, 2, 1, "v8">> >>
    ELSE IF chroma = MP2VSEQX_CHROMA_422
    THEN << <<1, 1, 1, "y8">>, <<2, 1, 1, "u8">>, <<2, 1, 1, "v8">> >>
    ELSE << <<1, 1, 1, "y8">>, <<1, 1, 1, "u8">>, <<1, 1, 1, "v8">> >>

DefOf(chroma) ==
    IF chroma = MP2VSEQX_CHROMA_420
    THEN EXPECTED_FLOW_DEF \o <<"pic", "planar8_420">>
    ELSE IF chroma = MP2VSEQX_CHROMA_422
    THEN EXPECTED_FLOW_DEF \o <<"pic", "planar8_422">>
    ELSE EXPECTED_FLOW_DEF \o <<"pic", "planar8_444">>

MaxOctetrateOf(level) ==
    IF level = MP2VSEQX_LEVEL_LOW THEN 4000000 \div 8
    ELSE IF level = MP2VSEQX_LEVEL_MAIN THEN 15000000 \div 8
    ELSE IF level = MP2VSEQX_LEVEL_HIGH1440 THEN 60000000 \div 8
    ELSE 80000000 \div 8

ValidLevel(level) ==
    level \in {MP2VSEQX_LEVEL_LOW, MP2VSEQX_LEVEL_MAIN,
               MP2VSEQX_LEVEL_HIGH1440, MP2VSEQX_LEVEL_HIGH}
ValidChroma(chroma) ==
    chroma \in {MP2VSEQX_CHROMA_420, MP2VSEQX_CHROMA_422,
                MP2VSEQX_CHROMA_444}
ValidAspect(aspect) ==
    aspect \in {MP2VSEQ_ASPECT_SQUARE, MP2VSEQ_ASPECT_4_3,
                MP2VSEQ_ASPECT_16_9, MP2VSEQ_ASPECT_2_21}

SarOf(aspect, horizontal, vertical) ==
    IF aspect = MP2VSEQ_ASPECT_SQUARE THEN [num |-> 1, den |-> 1]
    ELSE IF aspect = MP2VSEQ_ASPECT_4_3
    THEN urational_simplify([num |-> vertical * 4, den |-> horizontal * 3])
    ELSE IF aspect = MP2VSEQ_ASPECT_16_9
    THEN urational_simplify([num |-> vertical * 16, den |-> horizontal * 9])
    ELSE urational_simplify([num |-> vertical * 221,
                             den |-> horizontal * 100])

\* parses the cached sequence header (and extensions) and stores a new
\* output flow definition; ret is false in case of error
upipe_mp2vf_parse_sequence(w) ==
    LET sequence == w.sequence_header[1]
        hasext == w.sequence_ext # NULL
        ext == w.sequence_ext[1]
        framerate == mp2vseq_get_framerate(sequence)
        frame_rate0 == frame_rate_from_code[framerate + 1]
        profilelevel == mp2vseqx_get_profilelevel(ext)
        level == Low(profilelevel, 4)
        progressive == mp2vseqx_get_progressive(ext)
        chroma == mp2vseqx_get_chroma(ext)
        horizontal ==
            (mp2vseq_get_horizontal(sequence)
             + (IF hasext THEN mp2vseqx_get_horizontal(ext) * 4096 ELSE 0))
            % 65536
        vertical ==
            (mp2vseq_get_vertical(sequence)
             + (IF hasext THEN mp2vseqx_get_vertical(ext) * 4096 ELSE 0))
            % 65536
        bitrate ==
            mp2vseq_get_bitrate(sequence)
            + (IF hasext THEN mp2vseqx_get_bitrate(ext) * 262144 ELSE 0)
        vbvbuffer ==
            mp2vseq_get_vbvbuffer(sequence)
            + (IF hasext THEN mp2vseqx_get_vbvbuffer(ext) * 1024 ELSE 0)
        frame_rate ==
            IF hasext
            THEN urational_simplify(
                    [num |-> frame_rate0.num
                               * (mp2vseqx_get_frameraten(ext) + 1),
                     den |-> frame_rate0.den
                               * (mp2vseqx_get_framerated(ext) + 1)])
            ELSE frame_rate0
        aspect == mp2vseq_get_aspect(sequence)
        \* the part of the function that runs once the level is known:
        \* progressive_sequence is written before chroma and aspect are checked
        w1 == [w EXCEPT !.progressive_sequence = hasext /\ progressive]
        d0 == FlowDict(w.flow_def_input[1])
        d1 == IF hasext
              THEN [d0 EXCEPT !.profilelevel = profilelevel,
                              !.max_octetrate = MaxOctetrateOf(level),
                              !.progressive = progressive,
                              !.macropixel = 1,
                              !.planes = PlanesOf(chroma),
                              !.def = DefOf(chroma),
                              !.lowdelay = mp2vseqx_get_lowdelay(ext)]
              ELSE d0
        d2 == [d1 EXCEPT !.hsize = horizontal, !.vsize = vertical,
                         !.aspect = SarOf(aspect, horizontal, vertical),
                         !.fps = frame_rate,
                         !.octetrate = OctetRate(bitrate),
                         !.cpb_buffer = CpbBuffer(vbvbuffer)]
        d3 == IF w.sequence_display # NULL
              THEN [d2 EXCEPT
                      !.hsizevis =
                          mp2vseqdx_get_horizontal(w.sequence_display[1]),
                      !.vsizevis =
                          mp2vseqdx_get_vertical(w.sequence_display[1])]
              ELSE d2
    IN IF frame_rate0.num = 0 THEN Ret(w, FALSE)
       ELSE IF hasext /\ ~ValidLevel(level) THEN Ret(w, FALSE)
       ELSE IF hasext /\ ~ValidChroma(chroma) THEN Ret(w1, FALSE)
       ELSE IF ~ValidAspect(aspect) THEN Ret(w1, FALSE)
       ELSE Ret(upipe_mp2vf_store_flow_def([w1 EXCEPT !.fps = frame_rate],
                                           Ptr(d3)),
                TRUE)

\* size of the sequence header at the head of a frame, or -1 when the frame
\* is too short to hold it
upipe_mp2vf_extract_sequence(block) ==
    IF ~InRange(block, 11, 1) THEN 0 - 1
    ELSE LET word0 == At(block, 11)
             intra == Low(Shr(word0, 1), 1) = 1
         IN IF intra /\ ~InRange(block, 11 + 64, 1) THEN 0 - 1
            ELSE LET word == IF intra THEN At(block, 11 + 64) ELSE word0
                     size == MP2VSEQ_HEADER_SIZE
                             + (IF intra THEN 64 ELSE 0)
                             + (IF Low(word, 1) = 1 THEN 64 ELSE 0)
                 IN IF InRange(block, 0, size) THEN size ELSE 0 - 1

\* size of the sequence display extension at offset, or -1
upipe_mp2vf_extract_display(block, offset) ==
    IF ~InRange(block, offset, 1) THEN 0 - 1
    ELSE LET size == MP2VSEQDX_HEADER_SIZE
                     + (IF Low(At(block, offset), 1) = 1
                        THEN MP2VSEQDX_COLOR_SIZE ELSE 0)
         IN IF InRange(block, offset, size) THEN size ELSE 0 - 1

\* a comparison that only looks whether a sequence header is cached
SameSequenceOnceCached(w, sequence_header, sequence_ext, sequence_display) ==
    w.sequence_header # NULL

\* true when the new headers are octet for octet the cached ones
SameSequence(w, sequence_header, sequence_ext, sequence_display) ==
    /\ w.sequence_header # NULL
    /\ sequence_header = w.sequence_header
    /\ sequence_ext = w.sequence_ext
    /\ sequence_display = w.sequence_display

\* handles a frame beginning with a sequence header
upipe_mp2vf_handle_sequence(w, block) ==
    LET hsize == upipe_mp2vf_extract_sequence(block)
        sequence_header == Ptr(Take(block, hsize))
        e1 == upipe_mp2vf_find_ext(block, hsize)
        xok == InRange(block, e1.offset, MP2VSEQX_HEADER_SIZE)
        sequence_ext ==
            IF e1.found
            THEN Ptr(SubSeq(block, e1.offset + 1,
                            e1.offset + MP2VSEQX_HEADER_SIZE))
            ELSE NULL
        e2 == upipe_mp2vf_find_ext(block, e1.offset + MP2VSEQX_HEADER_SIZE)
        hasdisp == e1.found /\ e2.found /\ e2.start = MP2VX_ID_SEQDX
        dsize == upipe_mp2vf_extract_display(block, e2.offset)
        sequence_display ==
            IF hasdisp
            THEN Ptr(SubSeq(block, e2.offset + 1, e2.offset + dsize))
            ELSE NULL
    IN IF hsize < 0 THEN Ret(upipe_throw(w, "aerror"), FALSE)
       ELSE IF e1.found /\ e1.start # MP2VX_ID_SEQX THEN Ret(w, FALSE)
       ELSE IF e1.found /\ ~xok THEN Ret(upipe_throw(w, "aerror"), FALSE)
       ELSE IF hasdisp /\ dsize < 0 THEN Ret(upipe_throw(w, "aerror"), FALSE)
       ELSE IF SameSequence(w, sequence_header, sequence_ext,
                            sequence_display)
       THEN Ret([w EXCEPT !.sequence_header = sequence_header,
                          !.sequence_ext = sequence_ext,
                          !.sequence_display = sequence_display],
                TRUE)
       ELSE upipe_mp2vf_parse_sequence(
                [w EXCEPT !.sequence_header = sequence_header,
                          !.sequence_ext = sequence_ext,
                          !.sequence_display = sequence_display])

(***************************************************************************)
(* Picture header handling.                                                *)
(***************************************************************************)
\* a flush that leaves the registers as they are
upipe_mp2vf_flush_no_pts(w) == w

upipe_mp2vf_flush_pts(w) ==
    [w EXCEPT !.next_frame_ts =
        [n \in TimestampNames |->
            IF n \in {"pts_orig", "pts", "pts_sys"} THEN UINT64_MAX
            ELSE @[n]]]

upipe_mp2vf_flush_dts(w) ==
    [w EXCEPT !.next_frame_ts =
        [n \in TimestampNames |->
            IF n \in {"dts_orig", "dts", "dts_sys"} THEN UINT64_MAX
            ELSE @[n]]]

\* an increment by the duration of one field instead of the whole frame
upipe_mp2vf_increment_dts_by_field(w, duration) ==
    [w EXCEPT !.next_frame_ts =
        [n \in TimestampNames |->
            IF n \in {"dts_orig", "dts", "dts_sys"} /\ @[n] # UINT64_MAX
            THEN @[n] + duration \div 2 ELSE @[n]]]

upipe_mp2vf_increment_dts(w, duration) ==
    [w EXCEPT !.next_frame_ts =
        [n \in TimestampNames |->
            IF n \in {"dts_orig", "dts", "dts_sys"} /\ @[n] # UINT64_MAX
            THEN @[n] + duration ELSE @[n]]]

\* UCLOCK_FREQ * den / num, computed without leaving the 32-bit integers
\* of the model checker (UCLOCK_FREQ = 27000 * 1000)
BaseDuration(fps) ==
    LET x == (UCLOCK_FREQ \div 1000) * fps.den
    IN (x \div fps.num) * 1000 + ((x % fps.num) * 1000) \div fps.num

\* a numbering that adds the temporal reference alone
PictureNumberFromReference(w, temporalreference) ==
    w.last_picture_number + temporalreference

\* picture_number = last_picture_number
\*                  + (temporalreference - last_temporal_reference)
PictureNumber(w, temporalreference) ==
    w.last_picture_number + (temporalreference - w.last_temporal_reference)

\* duration of a picture that carries a picture coding extension
PicxDuration(w, ext, duration) ==
    IF w.progressive_sequence
    THEN IF mp2vpicx_get_rff(ext)
         THEN duration * (1 + (IF mp2vpicx_get_tff(ext) THEN 1 ELSE 0))
         ELSE duration
    ELSE IF mp2vpicx_get_structure(ext) = MP2VPICX_FRAME_PICTURE
    THEN IF mp2vpicx_get_rff(ext) THEN duration + duration \div 2
         ELSE duration
    ELSE duration \div 2

\* parses the picture header of a frame (uref: [dict, block]); the result
\* holds the pipe, the annotated uref and the return value
upipe_mp2vf_parse_picture(w, uref) ==
    LET block == uref.block
        g == uref_block_find(block, 0, FIND_GOP)
        hasgop == w.next_frame_offset # 0 /\ g.found
        gopok == InRange(block, g.offset, MP2VGOP_HEADER_SIZE)
        gop == SubSeq(block, g.offset + 1, g.offset + MP2VGOP_HEADER_SIZE)
        closedgop == hasgop /\ mp2vgop_get_closedgop(gop)
        brokenlink == hasgop /\ mp2vgop_get_brokenlink(gop)
        w1 == IF hasgop THEN [w EXCEPT !.last_temporal_reference = 0 - 1]
              ELSE w
        disc == brokenlink \/ (~closedgop /\ w.got_discontinuity)
        picok == InRange(block, w.next_frame_offset, MP2VPIC_HEADER_SIZE)
        picture == Drop(block, w.next_frame_offset)
        temporalreference == mp2vpic_get_temporalreference(picture)
        codingtype == mp2vpic_get_codingtype(picture)
        vbvdelay == mp2vpic_get_vbvdelay(picture)
        picture_number == PictureNumber(w1, temporalreference)
        w2 == IF temporalreference > w1.last_temporal_reference
              THEN [w1 EXCEPT !.last_temporal_reference = temporalreference,
                              !.last_picture_number = picture_number]
              ELSE w1
        d1 == [uref.dict EXCEPT
                 !.disc = @ \/ disc,
                 !.num = picture_number,
                 !.type = codingtype,
                 !.vbv_delay = IF vbvdelay # UINT16_MAX
                               THEN vbvdelay * (UCLOCK_FREQ \div 90000)
                               ELSE @]
        e == upipe_mp2vf_find_ext(block,
                                  w.next_frame_offset + MP2VPIC_HEADER_SIZE)
        extok == InRange(block, e.offset, MP2VPICX_HEADER_SIZE)
        ext == Drop(block, e.offset)
        structure == mp2vpicx_get_structure(ext)
        duration == IF e.found
                    THEN PicxDuration(w2, ext, BaseDuration(w2.fps))
                    ELSE BaseDuration(w2.fps)
        d2 == IF e.found
              THEN [d1 EXCEPT
                      !.tf = @ \/ Low(structure, 1) = 1,
                      !.bf = @ \/ Low(Shr(structure, 1), 1) = 1,
                      !.tff = @ \/ mp2vpicx_get_tff(ext),
                      !.duration = duration,
                      !.progressive = @ \/ mp2vpicx_get_progressive(ext)]
              ELSE d1
        d3 == [d2 EXCEPT !.ts = w2.next_frame_ts]
        w3 == upipe_mp2vf_increment_dts(upipe_mp2vf_flush_pts(w2), duration)
        failed(ww, dd, aerror) ==
            [w |-> IF aerror THEN upipe_throw(ww, "aerror") ELSE ww,
             uref |-> [uref EXCEPT !.dict = dd], ret |-> FALSE]
    IN IF hasgop /\ ~gopok THEN failed(w, uref.dict, TRUE)
       ELSE IF ~picok
       THEN failed(w1, [uref.dict EXCEPT !.disc = @ \/ disc], TRUE)
       ELSE IF w2.fps.num = 0
       THEN [w |-> [w2 EXCEPT !.crashed = TRUE],
             uref |-> [uref EXCEPT !.dict = d1], ret |-> FALSE]
       ELSE IF e.found /\ e.start # MP2VX_ID_PICX THEN failed(w2, d1, FALSE)
       ELSE IF e.found /\ ~extok THEN failed(w2, d1, TRUE)
       ELSE [w |-> w3, uref |-> [uref EXCEPT !.dict = d3], ret |-> TRUE]

\* an insertion that puts the display extension first and the sequence
\* header last
HandleParsedPictureDisplayFirst(p) ==
    LET systime_rap == p.uref.dict.systime_rap
        inserted ==
            (IF p.w.sequence_display # NULL THEN p.w.sequence_display[1]
             ELSE <<>>)
            \o (IF p.w.sequence_ext # NULL THEN p.w.sequence_ext[1]
                ELSE <<>>)
            \o p.w.sequence_header[1]
    IN IF ~p.ret THEN p
       ELSE IF p.uref.dict.type # MP2VPIC_TYPE_I THEN p
       ELSE IF p.w.next_frame_sequence
       THEN [w |-> [p.w EXCEPT !.systime_rap = systime_rap],
             uref |-> [p.uref EXCEPT !.dict.random = TRUE],
             ret |-> TRUE]
       ELSE IF p.w.insert_sequence
       THEN IF p.w.sequence_header = NULL
            THEN [p EXCEPT !.w.crashed = TRUE, !.ret = FALSE]
            ELSE [w |-> [p.w EXCEPT !.systime_rap = systime_rap],
                  uref |-> [p.uref EXCEPT !.dict.random = TRUE,
                                          !.block = inserted \o @],
                  ret |-> TRUE]
       ELSE p

\* parses the picture header and, for an I picture, marks the random access
\* point and inserts the cached sequence headers when asked to
HandleParsedPicture(p) ==
    LET systime_rap == p.uref.dict.systime_rap
        inserted ==
            p.w.sequence_header[1]
            \o (IF p.w.sequence_ext # NULL THEN p.w.sequence_ext[1]
                ELSE <<>>)
            \o (IF p.w.sequence_display # NULL THEN p.w.sequence_display[1]
                ELSE <<>>)
    IN IF ~p.ret THEN p
       ELSE IF p.uref.dict.type # MP2VPIC_TYPE_I THEN p
       ELSE IF p.w.next_frame_sequence
       THEN [w |-> [p.w EXCEPT !.systime_rap = systime_rap],
             uref |-> [p.uref EXCEPT !.dict.random = TRUE],
             ret |-> TRUE]
       ELSE IF p.w.insert_sequence
       THEN IF p.w.sequence_header = NULL
            THEN [p EXCEPT !.w.crashed = TRUE, !.ret = FALSE]
            ELSE [w |-> [p.w EXCEPT !.systime_rap = systime_rap],
                  uref |-> [p.uref EXCEPT !.dict.random = TRUE,
                                          !.block = inserted \o @],
                  ret |-> TRUE]
       ELSE p

upipe_mp2vf_handle_picture(w, uref) ==
    HandleParsedPicture(upipe_mp2vf_parse_picture(w, uref))

\* handles and outputs the frame made of the first next_frame_size octets
\* of the octet stream; ret is false if the stream needs to be resync'd
\* p: what upipe_mp2vf_handle_picture returned
OutputHandledFrame(p) ==
    IF ~p.ret THEN Ret(p.w, FALSE)
    ELSE Ret(upipe_mp2vf_output(
                p.w,
                IF p.w.systime_rap # UINT64_MAX
                THEN [p.uref EXCEPT !.dict.systime_rap = p.w.systime_rap]
                ELSE p.uref),
             TRUE)

\* s: what upipe_mp2vf_handle_sequence returned, if it was called
OutputSequencedFrame(s, uref) ==
    IF ~s.ret THEN Ret(s.w, FALSE)
    ELSE OutputHandledFrame(upipe_mp2vf_handle_picture(s.w, uref))

upipe_mp2vf_output_frame(w) ==
    OutputSequencedFrame(
        IF w.next_frame_sequence
        THEN upipe_mp2vf_handle_sequence(w, Take(w.block, w.next_frame_size))
        ELSE Ret(w, TRUE),
        [dict |-> w.next_uref[1],
         block |-> Take(w.block, w.next_frame_size)])

(***************************************************************************)
(* The framer: allocation, the work loop, input.                           *)
(***************************************************************************)
\* upipe_mp2vf_alloc leaves fps and progressive_sequence as malloc returned
\* them; uninit is what these octets happen to hold.  The output pipe of
\* the model is attached from the start.  The record also keeps what the
\* pipe has sent (sink, events), whether the process has died (crashed),
\* whether the pipe has been destroyed (dead), the branch taken last (last)
\* and the value of uninit.
upipe_mp2vf_alloc(uninit) ==
    [uninit |-> uninit, flow_def |-> NULL, flow_def_sent |-> FALSE,
     flow_def_input |-> NULL,
     systime_rap |-> UINT64_MAX,
     last_picture_number |-> 0, last_temporal_reference |-> 0 - 1,
     got_discontinuity |-> FALSE, insert_sequence |-> FALSE,
     sequence_header |-> NULL, sequence_ext |-> NULL,
     sequence_display |-> NULL,
     progressive_sequence |-> uninit.progressive_sequence,
     fps |-> uninit.fps,
     next_uref |-> NULL, next_uref_size |-> 0, urefs |-> <<>>,
     block |-> <<>>,
     next_frame_size |-> 0, next_frame_sequence |-> FALSE,
     next_frame_offset |-> 0 - 1, next_frame_slice |-> FALSE,
     next_frame_ts |-> NoTimestamps,
     acquired |-> FALSE, output |-> Ptr("output"),
     refcount |-> 1, dead |-> FALSE,
     sink |-> <<>>, events |-> <<"ready">>,
     crashed |-> FALSE, last |-> "alloc"]

\* a search that forgets a start code cut short by the end of the block
upipe_mp2vf_find_forgetting_prefix(w) ==
    LET r == uref_block_find(w.block, w.next_frame_size, FIND_START)
        ok == r.found /\ InRange(w.block, r.offset + 3, 1)
    IN [w |-> [w EXCEPT !.next_frame_size =
                            IF ok THEN r.offset ELSE Len(w.block)],
        found |-> ok,
        start |-> IF ok THEN At(w.block, r.offset + 3) ELSE 0]

\* finds a start code from next_frame_size on and returns its value
upipe_mp2vf_find(w) ==
    LET r == uref_block_find(w.block, w.next_frame_size, FIND_START)
        ok == r.found /\ InRange(w.block, r.offset + 3, 1)
    IN [w |-> [w EXCEPT !.next_frame_size = r.offset],
        found |-> ok,
        start |-> IF ok THEN At(w.block, r.offset + 3) ELSE 0]

\* a scan that takes a GOP start code for the start of a sequence
WorkScanAcquiringOnGop(w, start) ==
    LET w1 == [upipe_mp2vf_consume_octet_stream(w, w.next_frame_size)
                 EXCEPT !.next_frame_size = 0]
        w2 == IF start = MP2VPIC_START_CODE
              THEN upipe_mp2vf_flush_dts(upipe_mp2vf_flush_pts(w1))
              ELSE IF start = MP2VSEQ_START_CODE
                      \/ start = MP2VGOP_START_CODE
              THEN [upipe_mp2vf_sync_acquired(w1)
                      EXCEPT !.next_frame_sequence = TRUE]
              ELSE w1
    IN [w2 EXCEPT !.next_frame_size = @ + 4, !.last = "scan"]

\* upipe_mp2vf_work, sync not acquired: drop what precedes the start code
WorkScan(w, start) ==
    LET w1 == [upipe_mp2vf_consume_octet_stream(w, w.next_frame_size)
                 EXCEPT !.next_frame_size = 0]
        w2 == IF start = MP2VPIC_START_CODE
              THEN upipe_mp2vf_flush_dts(upipe_mp2vf_flush_pts(w1))
              ELSE IF start = MP2VSEQ_START_CODE
              THEN [upipe_mp2vf_sync_acquired(w1)
                      EXCEPT !.next_frame_sequence = TRUE]
              ELSE w1
    IN [w2 EXCEPT !.next_frame_size = @ + 4, !.last = "scan"]

\* upipe_mp2vf_work, no picture start code yet in the frame
WorkHeader(w, start) ==
    [w EXCEPT !.next_frame_offset =
                  IF start = MP2VPIC_START_CODE THEN w.next_frame_size
                  ELSE @,
              !.next_frame_size = @ + 4,
              !.last = "header"]

\* a slice test that takes the picture start code for a slice
IsSliceOrPicture(start) ==
    start >= MP2VPIC_START_CODE /\ start <= MP2VPIC_LAST_CODE

\* the start codes of slices
IsSlice(start) == start > MP2VPIC_START_CODE /\ start <= MP2VPIC_LAST_CODE

WorkInside(w, start) ==
    IF start = MP2VX_START_CODE
    THEN [w EXCEPT !.next_frame_size = @ + 4, !.last = "extension"]
    ELSE [w EXCEPT !.next_frame_slice = TRUE,
                   !.next_frame_size = @ + 4, !.last = "slice"]

\* true when upipe_mp2vf_work closes the frame on this start code
ClosesFrame(w, start) ==
    /\ w.acquired
    /\ w.next_frame_offset # 0 - 1
    /\ start # MP2VX_START_CODE
    /\ ~IsSlice(start)

\* a closing that leaves next_frame_slice as it is
WorkOutputReturnedKeepingSlice(o, start) ==
    LET reset == [upipe_mp2vf_consume_octet_stream(o.w, o.w.next_frame_size)
                    EXCEPT !.next_frame_sequence = FALSE,
                           !.next_frame_offset = 0 - 1]
    IN IF o.w.crashed THEN [o.w EXCEPT !.last = "crash"]
       ELSE IF ~o.ret
       THEN [upipe_mp2vf_sync_lost([reset EXCEPT !.next_frame_size = 0])
               EXCEPT !.last = "erroneous"]
       ELSE IF start = MP2VSEQ_START_CODE
       THEN [reset EXCEPT !.next_frame_size = 4,
                          !.next_frame_sequence = TRUE, !.last = "output"]
       ELSE IF start = MP2VGOP_START_CODE
       THEN [reset EXCEPT !.next_frame_size = 4, !.last = "output"]
       ELSE IF start = MP2VPIC_START_CODE
       THEN [reset EXCEPT !.next_frame_size = 4,
                          !.next_frame_offset = 0, !.last = "output"]
       ELSE IF start = MP2VEND_START_CODE
       THEN [upipe_mp2vf_sync_lost([reset EXCEPT !.next_frame_size = 0])
               EXCEPT !.last = "output"]
       ELSE [upipe_mp2vf_sync_lost([reset EXCEPT !.next_frame_size = 4])
               EXCEPT !.last = "output"]

\* o: what upipe_mp2vf_output_frame returned
WorkOutputReturned(o, start) ==
    LET reset == [upipe_mp2vf_consume_octet_stream(o.w, o.w.next_frame_size)
                    EXCEPT !.next_frame_sequence = FALSE,
                           !.next_frame_offset = 0 - 1,
                           !.next_frame_slice = FALSE]
    IN IF o.w.crashed THEN [o.w EXCEPT !.last = "crash"]
       ELSE IF ~o.ret
       THEN [upipe_mp2vf_sync_lost([reset EXCEPT !.next_frame_size = 0])
               EXCEPT !.last = "erroneous"]
       ELSE IF start = MP2VSEQ_START_CODE
       THEN [reset EXCEPT !.next_frame_size = 4,
                          !.next_frame_sequence = TRUE, !.last = "output"]
       ELSE IF start = MP2VGOP_START_CODE
       THEN [reset EXCEPT !.next_frame_size = 4, !.last = "output"]
       ELSE IF start = MP2VPIC_START_CODE
       THEN [reset EXCEPT !.next_frame_size = 4,
                          !.next_frame_offset = 0, !.last = "output"]
       ELSE IF start = MP2VEND_START_CODE
       THEN [upipe_mp2vf_sync_lost([reset EXCEPT !.next_frame_size = 0])
               EXCEPT !.last = "output"]
       ELSE [upipe_mp2vf_sync_lost([reset EXCEPT !.next_frame_size = 4])
               EXCEPT !.last = "output"]

\* a closing that leaves the end-of-sequence code out of the frame
WorkOutputBeforeEnd(w, start) ==
    WorkOutputReturned(upipe_mp2vf_output_frame(w), start)

\* upipe_mp2vf_work, the start code closes the frame
WorkOutput(w, start) ==
    WorkOutputReturned(
        upipe_mp2vf_output_frame(
            IF start = MP2VEND_START_CODE
            THEN [w EXCEPT !.next_frame_size = @ + 4] ELSE w),
        start)

\* true when the loop of upipe_mp2vf_work goes through one more iteration
WorkContinues(w) ==
    /\ ~w.crashed
    /\ w.next_uref # NULL
    /\ upipe_mp2vf_find(w).found

\* one iteration of the loop of upipe_mp2vf_work
upipe_mp2vf_work(w) ==
    LET f == upipe_mp2vf_find(w)
    IN IF ~f.w.acquired THEN WorkScan(f.w, f.start)
       ELSE IF f.w.next_frame_offset = 0 - 1 THEN WorkHeader(f.w, f.start)
       ELSE IF ClosesFrame(f.w, f.start) THEN WorkOutput(f.w, f.start)
       ELSE WorkInside(f.w, f.start)

\* the return of upipe_mp2vf_work: next_uref is NULL or no start code is
\* complete; the failed search has still moved next_frame_size
WorkReturn(w) ==
    IF w.next_uref = NULL \/ w.crashed THEN [w EXCEPT !.last = "return"]
    ELSE [upipe_mp2vf_find(w).w EXCEPT !.last = "return"]

\* the whole of upipe_mp2vf_work
RECURSIVE RunWork(_)
RunWork(w) ==
    IF WorkContinues(w) THEN RunWork(upipe_mp2vf_work(w)) ELSE WorkReturn(w)

IsPrefix(p, s) == Len(p) <= Len(s) /\ Take(s, Len(p)) = p

\* an input that keeps the output flow definition when f.def is refused
InputFlowDefinitionKeepingOutput(w, def) ==
    IF ~IsPrefix(EXPECTED_FLOW_DEF, def)
    THEN upipe_throw([w EXCEPT !.flow_def_input = NULL], "flow_def_error")
    ELSE LET w1 == [w EXCEPT !.flow_def_input = Ptr(def)]
         IN IF w1.sequence_header # NULL
            THEN upipe_mp2vf_parse_sequence(w1).w
            ELSE w1

\* upipe_mp2vf_input, a uref carrying f.def
InputFlowDefinition(w, def) ==
    IF ~IsPrefix(EXPECTED_FLOW_DEF, def)
    THEN upipe_throw(
            upipe_mp2vf_store_flow_def([w EXCEPT !.flow_def_input = NULL],
                                       NULL),
            "flow_def_error")
    ELSE LET w1 == [w EXCEPT !.flow_def_input = Ptr(def)]
         IN IF w1.sequence_header # NULL
            THEN upipe_mp2vf_parse_sequence(w1).w
            ELSE w1

\* an input that sets got_discontinuity and keeps the octet stream
InputBlockKeepingQueue(w, uref) ==
    IF w.flow_def_input = NULL THEN upipe_throw(w, "flow_def_error")
    ELSE LET w1 ==
               IF uref.dict.disc
               THEN IF ~w.next_frame_slice
                    THEN [w EXCEPT !.got_discontinuity = TRUE]
                    ELSE IF w.next_uref = NULL
                    THEN [w EXCEPT !.crashed = TRUE]
                    ELSE [w EXCEPT !.next_uref[1].error = TRUE]
               ELSE w
         IN IF w1.crashed THEN w1
            ELSE upipe_mp2vf_append_octet_stream(w1, uref)

\* an input that takes every discontinuity as one before the first slice
InputBlockAlwaysCleaning(w, uref) ==
    IF w.flow_def_input = NULL THEN upipe_throw(w, "flow_def_error")
    ELSE upipe_mp2vf_append_octet_stream(
            IF uref.dict.disc
            THEN [upipe_mp2vf_init_octet_stream(w)
                    EXCEPT !.got_discontinuity = TRUE]
            ELSE w,
            uref)

\* upipe_mp2vf_input, a uref carrying a block, up to the call of
\* upipe_mp2vf_work; uref: [dict, block]
InputBlock(w, uref) ==
    IF w.flow_def_input = NULL THEN upipe_throw(w, "flow_def_error")
    ELSE LET w1 ==
               IF uref.dict.disc
               THEN IF ~w.next_frame_slice
                    THEN [upipe_mp2vf_init_octet_stream(w)
                            EXCEPT !.got_discontinuity = TRUE]
                    ELSE IF w.next_uref = NULL
                    THEN [w EXCEPT !.crashed = TRUE]
                    ELSE [w EXCEPT !.next_uref[1].error = TRUE]
               ELSE w
         IN IF w1.crashed THEN w1
            ELSE upipe_mp2vf_append_octet_stream(w1, uref)

\* _upipe_mp2vf_set_sequence_insertion
upipe_mp2vf_set_sequence_insertion(w, val) ==
    [w EXCEPT !.insert_sequence = val # 0]

upipe_mp2vf_use(w) == [w EXCEPT !.refcount = @ + 1]

\* the octet-stream helper frees next_uref and the urefs of the queue
upipe_mp2vf_clean_octet_stream(w) ==
    [w EXCEPT !.next_uref = NULL, !.urefs = <<>>, !.block = <<>>]

\* the output helper releases the output pipe and frees the flow definition
upipe_mp2vf_clean_output(w) ==
    [w EXCEPT !.output = NULL, !.flow_def = NULL]

\* what upipe_mp2vf_release does when the reference it drops is the last
\* a destruction whose upipe_mp2vf_clean_sync throws sync_lost
DestroyLosingSync(w) ==
    [upipe_mp2vf_sync_lost(
        upipe_mp2vf_clean_output(
           upipe_mp2vf_clean_octet_stream(upipe_throw(w, "dead"))))
       EXCEPT !.flow_def_input = NULL, !.sequence_header = NULL,
              !.sequence_ext = NULL, !.sequence_display = NULL,
              !.dead = TRUE]

Destroy(w) ==
    [upipe_mp2vf_clean_output(
        upipe_mp2vf_clean_octet_stream(upipe_throw(w, "dead")))
       EXCEPT !.flow_def_input = NULL, !.sequence_header = NULL,
              !.sequence_ext = NULL, !.sequence_display = NULL,
              !.dead = TRUE]

\* a release that does not look at the reference count
upipe_mp2vf_release_at_once(w) ==
    [Destroy(w) EXCEPT !.refcount = @ - 1, !.last = "release"]

upipe_mp2vf_release(w) ==
    IF w.refcount - 1 = 0
    THEN [Destroy(w) EXCEPT !.refcount = 0, !.last = "release"]
    ELSE [w EXCEPT !.refcount = @ - 1, !.last = "release"]

(***************************************************************************)
(* The elementary streams of the model, built from syntactic units.        *)
(***************************************************************************)
\* sequence header: 16x16, aspect code, frame rate code, no quantiser matrix
SEQ(aspect, framerate) ==
    <<0, 0, 1, MP2VSEQ_START_CODE, 1, 0, 16, aspect * 16 + framerate,
      0, 5, 32, 64>>
\* sequence extension: profile and level, progressive flag, chroma format
SEQX(profilelevel, progressive, chroma) ==
    <<0, 0, 1, MP2VX_START_CODE,
      MP2VX_ID_SEQX * 16 + profilelevel \div 16,
      (profilelevel % 16) * 16 + progressive * 8 + chroma * 2,
      0, 3, 0, 0>>
\* group of pictures header
GOP(closedgop, brokenlink) ==
    <<0, 0, 1, MP2VGOP_START_CODE, 0, 8, 0, closedgop * 64 + brokenlink * 32>>
\* picture header: temporal reference, coding type, vbv_delay unspecified
PIC(temporalreference, codingtype) ==
    <<0, 0, 1, MP2VPIC_START_CODE, temporalreference \div 4,
      (temporalreference % 4) * 64 + codingtype * 8 + 7, 255, 248>>
\* picture coding extension: frame picture, top field first
PICX == <<0, 0, 1, MP2VX_START_CODE, MP2VX_ID_PICX * 16 + 15, 255,
          240 + MP2VPICX_FRAME_PICTURE, 128, 128>>
\* a slice with one octet of data
SLICE == <<0, 0, 1, 1, 170>>
\* user data: a start code that is none of the codes the framer names
USER == <<0, 0, 1, 178, 85>>
END == <<0, 0, 1, MP2VEND_START_CODE>>
\* an extension that is neither a sequence nor a picture coding extension
QMX == <<0, 0, 1, MP2VX_START_CODE, 3 * 16, 0>>

SeqOk == SEQ(MP2VSEQ_ASPECT_SQUARE, 3)
SeqWide == SEQ(MP2VSEQ_ASPECT_16_9, 3)
SeqBadRate == SEQ(MP2VSEQ_ASPECT_SQUARE, 0)
SeqBadAspect == SEQ(0, 3)
PicI == PIC(0, MP2VPIC_TYPE_I)

\* two I frames whose sequence headers differ in the aspect code
AspectChange == <<SeqOk, PicI, SLICE, SeqWide, PicI, SLICE, END>>
\* IBBP in decode order, temporal references 0, 2, 3, 1
IBBP ==
    <<SeqOk, GOP(1, 0), PicI, SLICE, PIC(2, MP2VPIC_TYPE_P), SLICE,
      PIC(3, MP2VPIC_TYPE_B), SLICE, PIC(1, MP2VPIC_TYPE_B), SLICE, END>>
\* a valid sequence, then twice the same invalid sequence header
InvalidTwice ==
    <<SeqOk, PicI, SLICE, SeqBadAspect, PicI,
      SeqBadAspect, PicI, SLICE, END>>
\* a picture header without any slice
PictureWithoutSlice == <<SeqOk, PicI, PIC(1, MP2VPIC_TYPE_P), SLICE, SeqOk>>

\* start codes before the first sequence header, open last frame
OpenLastFrame ==
    <<<<255, 0>>, PicI, GOP(0, 0), USER, SeqOk, PicI, SLICE,
      PIC(1, MP2VPIC_TYPE_P), SLICE, PIC(2, MP2VPIC_TYPE_P)>>
\* minimal stream, after an octet of padding
Minimal == <<<<0>>, SeqOk, PicI, SLICE, END>>

\* groups of pictures: closed, open, with a broken link; then a sequence
\* without group of pictures
Groups ==
    <<SeqOk, GOP(1, 0), PicI, SLICE, GOP(0, 0), PicI, SLICE,
      GOP(0, 1), PicI, SLICE, SeqOk, PicI, SLICE, END>>

\* the streams that are cut into several urefs
CutScenarios ==
    { Minimal, AspectChange, OpenLastFrame, InvalidTwice,
      PictureWithoutSlice,
      \* twice the same invalid sequence header on a fresh pipe
      <<SeqBadRate, PicI, SeqBadRate, PicI, SLICE, END>> }

\* the streams that are followed one iteration of the work loop at a time
Scenarios ==
    CutScenarios
    \cup
    { IBBP, Groups,
      \* two I frames with the same sequence header
      <<SeqOk, PicI, SLICE, SeqOk, PicI, SLICE, END>>,
      \* invalid frame rate code, then a valid sequence
      <<SeqBadRate, PicI, SLICE, SeqOk, PicI, SLICE, END>>,
      \* MPEG-2 headers
      <<SeqOk, SEQX(72, 1, MP2VSEQX_CHROMA_420), GOP(0, 0), PicI, PICX,
        SLICE, END>>,
      \* unknown chroma format, invalid level
      <<SeqOk, SEQX(72, 0, 0), PicI, PICX, SLICE, END>>,
      <<SeqOk, SEQX(79, 0, MP2VSEQX_CHROMA_422), PicI, PICX, SLICE, END>>,
      \* a first extension that is not a sequence extension
      <<SeqOk, PicI, PICX, SLICE, SeqOk, PicI, SLICE, END>>,
      \* a valid new sequence whose picture is followed by a wrong extension
      <<SeqOk, SEQX(72, 1, MP2VSEQX_CHROMA_420), PicI, QMX, SLICE,
        SeqOk, SEQX(72, 1, MP2VSEQX_CHROMA_420), PicI, PICX, SLICE, END>>,
      \* a frame closed by user data
      <<SeqOk, PicI, SLICE, USER, PicI, SLICE, SeqOk, PicI, SLICE, END>> }

CutStreams == { Flatten(s) : s \in CutScenarios }
Streams == { Flatten(s) : s \in Scenarios }

\* what malloc may have left in the fields that alloc does not set
Uninitialised ==
    { [fps |-> [num |-> 0, den |-> 0], progressive_sequence |-> FALSE],
      [fps |-> [num |-> 30, den |-> 1], progressive_sequence |-> TRUE] }

\* the f.def strings given to input
FlowDefs == { <<"block", "mpeg2video", "pes">>, <<"block", "h264">> }

\* the attributes of the payload urefs given to input
InputDicts == { EmptyDict }

(***************************************************************************)
(* Specification of the framer.                                            *)
(***************************************************************************)
UdictIdle ==
    /\ mgr = <<>>
    /\ umems = <<>>
    /\ udict = <<>>
    /\ shadow = <<>>
    /\ nops = 0
    /\ lastop = <<>>

\* the pipe after upipe_mp2vf_alloc, and the stream it is going to receive
Allocated ==
    /\ \E uninit \in Uninitialised : mp2vf = upipe_mp2vf_alloc(uninit)
    /\ pc = "idle"
    /\ fed = 0
    /\ accepted = <<>>
    /\ nflowdefs = 0
    /\ nurefs = 0
    /\ inputs = <<>>
    /\ UdictIdle

InitFramer == stream \in CutStreams /\ Allocated

\* input of a flow definition
InputFlowDef ==
    /\ pc = "idle"
    /\ ~mp2vf.crashed
    /\ nflowdefs < MaxFlowDefs
    /\ \E def \in FlowDefs :
          mp2vf' = [InputFlowDefinition(mp2vf, def) EXCEPT !.last = "flow_def"]
    /\ nflowdefs' = nflowdefs + 1
    /\ UNCHANGED <<pc, stream, fed, accepted, nurefs, inputs, udict_vars>>

\* upipe_mp2vf_input of the next octets of the stream as one uref, with the
\* whole of upipe_mp2vf_work; the last uref the bound allows carries the
\* rest of the stream
Input ==
    /\ pc = "idle"
    /\ ~mp2vf.crashed
    /\ nurefs < MaxUrefs
    /\ fed < Len(stream)
    /\ \E size \in 1..(Len(stream) - fed), dict \in InputDicts :
          /\ nurefs + 1 = MaxUrefs => size = Len(stream) - fed
          /\ LET uref == [dict |-> dict,
                          block |-> SubSeq(stream, fed + 1, fed + size)]
             IN /\ mp2vf' = IF mp2vf.flow_def_input = NULL
                            THEN [InputBlock(mp2vf, uref)
                                    EXCEPT !.last = "input"]
                            ELSE RunWork(InputBlock(mp2vf, uref))
                /\ fed' = fed + size
                /\ accepted' = IF mp2vf.flow_def_input = NULL THEN accepted
                               ELSE Append(accepted, uref.block)
    /\ nurefs' = nurefs + 1
    /\ UNCHANGED <<pc, stream, nflowdefs, inputs, udict_vars>>

NextFramer == InputFlowDef \/ Input

SpecFramer == InitFramer /\ [][NextFramer]_vars

(***************************************************************************)
(* The same pipe with upipe_mp2vf_work taken one iteration of its loop at  *)
(* a time: Accept is upipe_mp2vf_input up to the call of                   *)
(* upipe_mp2vf_work, Work one iteration, Return the return of both.        *)
(***************************************************************************)
Accept ==
    /\ pc = "idle"
    /\ ~mp2vf.crashed
    /\ nurefs < MaxSteppedUrefs
    /\ fed < Len(stream)
    /\ \E size \in 1..(Len(stream) - fed), dict \in InputDicts :
          /\ nurefs + 1 = MaxSteppedUrefs => size = Len(stream) - fed
          /\ LET uref == [dict |-> dict,
                          block |-> SubSeq(stream, fed + 1, fed + size)]
             IN /\ mp2vf' = [InputBlock(mp2vf, uref) EXCEPT !.last = "input"]
                /\ fed' = fed + size
                /\ accepted' = IF mp2vf.flow_def_input = NULL THEN accepted
                               ELSE Append(accepted, uref.block)
                /\ pc' = IF mp2vf.flow_def_input = NULL THEN "idle"
                         ELSE "work"
    /\ nurefs' = nurefs + 1
    /\ UNCHANGED <<stream, nflowdefs, inputs, udict_vars>>

\* one iteration of the loop of upipe_mp2vf_work
Work ==
    /\ pc = "work"
    /\ WorkContinues(mp2vf)
    /\ mp2vf' = upipe_mp2vf_work(mp2vf)
    /\ UNCHANGED <<pc, stream, fed, accepted, nflowdefs, nurefs, inputs,
                   udict_vars>>

\* upipe_mp2vf_work and upipe_mp2vf_input return
Return ==
    /\ pc = "work"
    /\ ~WorkContinues(mp2vf)
    /\ mp2vf' = WorkReturn(mp2vf)
    /\ pc' = "idle"
    /\ UNCHANGED <<stream, fed, accepted, nflowdefs, nurefs, inputs,
                   udict_vars>>

NextSteps == InputFlowDef \/ Accept \/ Work \/ Return

InitSteps == stream \in Streams /\ Allocated

SpecSteps == InitSteps /\ [][NextSteps]_vars

(***************************************************************************)
(* The inline attribute dictionary (udict_inline.c).                       *)
(* A dictionary is [buffer, umem_size]: buffer holds the inl->size used    *)
(* octets of the umem, umem_size is the size of the umem.  A name is the   *)
(* sequence of its characters without the final NUL; an attribute of the   *)
(* buffer is the 0-based offset of its first octet, NULL being -1.         *)
(***************************************************************************)
UDICT_TYPE_END == 0
UDICT_TYPE_OPAQUE == 1
UDICT_TYPE_STRING == 2
UDICT_TYPE_VOID == 3
UDICT_TYPE_BOOL == 4
UDICT_TYPE_SMALL_UNSIGNED == 5
UDICT_TYPE_SMALL_INT == 6
UDICT_TYPE_UNSIGNED == 7
UDICT_TYPE_INT == 8
UDICT_TYPE_RATIONAL == 9
UDICT_TYPE_FLOAT == 10
UDICT_TYPE_SHORTHAND == 16
UDICT_MIN_SIZE == 128
UDICT_EXTRA_SIZE == 64

\* the manager of the model is allocated with these sizes
MgrMinSize == 8
MgrExtraSize == 4

\* udict_inline_mgr_alloc: a size that is not positive stands for the
\* default.  The pool holds the structures of freed dictionaries, each
\* with the used size it was left with; the manager counts the reference
\* of its owner and one for each dictionary.
udict_inline_mgr_alloc(udict_pool_depth, min_size, extra_size) ==
    [min_size |-> IF min_size > 0 THEN min_size ELSE UDICT_MIN_SIZE,
     extra_size |-> IF extra_size > 0 THEN extra_size ELSE UDICT_EXTRA_SIZE,
     udict_pool_depth |-> udict_pool_depth,
     udict_pool |-> <<>>,
     refcount |-> 1]

\* the manager of the dictionaries of the model
TheManager == udict_inline_mgr_alloc(0, MgrMinSize, MgrExtraSize)
\* dictionary operations in a run
MaxOps == 4

NullAttr == 0 - 1

inline_shorthands ==
    << [name |-> "f.disc", base_type |-> UDICT_TYPE_VOID],
       [name |-> "f.random", base_type |-> UDICT_TYPE_VOID],
       [name |-> "f.error", base_type |-> UDICT_TYPE_VOID],
       [name |-> "f.def", base_type |-> UDICT_TYPE_STRING],
       [name |-> "f.rawdef", base_type |-> UDICT_TYPE_STRING],
       [name |-> "f.program", base_type |-> UDICT_TYPE_STRING],
       [name |-> "f.lang", base_type |-> UDICT_TYPE_STRING],
       [name |-> "k.systime", base_type |-> UDICT_TYPE_UNSIGNED],
       [name |-> "k.systime.rap", base_type |-> UDICT_TYPE_UNSIGNED],
       [name |-> "k.pts", base_type |-> UDICT_TYPE_UNSIGNED],
       [name |-> "k.pts.orig", base_type |-> UDICT_TYPE_UNSIGNED],
       [name |-> "k.pts.sys", base_type |-> UDICT_TYPE_UNSIGNED],
       [name |-> "k.dts", base_type |-> UDICT_TYPE_UNSIGNED],
       [name |-> "k.dts.orig", base_type |-> UDICT_TYPE_UNSIGNED],
       [name |-> "k.dts.sys", base_type |-> UDICT_TYPE_UNSIGNED],
       [name |-> "k.vbvdelay", base_type |-> UDICT_TYPE_UNSIGNED],
       [name |-> "k.duration", base_type |-> UDICT_TYPE_UNSIGNED],
       [name |-> "b.start", base_type |-> UDICT_TYPE_VOID],
       [name |-> "b.end", base_type |-> UDICT_TYPE_VOID],
       [name |-> "p.num", base_type |-> UDICT_TYPE_UNSIGNED],
       [name |-> "p.hsize", base_type |-> UDICT_TYPE_UNSIGNED],
       [name |-> "p.vsize", base_type |-> UDICT_TYPE_UNSIGNED],
       [name |-> "p.hsizevis", base_type |-> UDICT_TYPE_UNSIGNED],
       [name |-> "p.vsizevis", base_type |-> UDICT_TYPE_UNSIGNED],
       [name |-> "p.hposition", base_type |-> UDICT_TYPE_UNSIGNED],
       [name |-> "p.vposition", base_type |-> UDICT_TYPE_UNSIGNED],
       [name |-> "p.aspect", base_type |-> UDICT_TYPE_RATIONAL],
       [name |-> "p.progressive", base_type |-> UDICT_TYPE_VOID],
       [name |-> "p.tf", base_type |-> UDICT_TYPE_VOID],
       [name |-> "p.bf", base_type |-> UDICT_TYPE_VOID],
       [name |-> "p.tff", base_type |-> UDICT_TYPE_VOID] >>

\* size of the value of the basic types, indexed by type
attr_sizes == <<0, 0, 0, 0, 1, 1, 1, 8, 8, 16, 8>>
AttrSize(base_type) == attr_sizes[base_type + 1]

Max(a, b) == IF a >= b THEN a ELSE b
IsVariable(base_type) ==
    base_type = UDICT_TYPE_OPAQUE \/ base_type = UDICT_TYPE_STRING

udict_inline_alloc(size) ==
    [buffer |-> <<UDICT_TYPE_END>>, umem_size |-> Max(size, MgrMinSize)]

udict_inline_dup(d) ==
    [udict_inline_alloc(Len(d.buffer)) EXCEPT !.buffer = d.buffer]

\* udict_inline_alloc and udict_inline_free on a manager m.  inl is a
\* struct udict_inline as malloc or the pool hands it over: [size], the
\* used size it was left with.  fails names the allocation that fails:
\* "none", "malloc" (the structure) or "umem" (the buffer).
\* an allocation that leaves the used size of the structure as it finds it
NewDictKeepingSize(inl, size, min_size) ==
    [buffer |-> <<UDICT_TYPE_END>> \o [i \in 1..(inl.size - 1) |-> 255],
     umem_size |-> Max(size, min_size)]

\* the dictionary once the umem is allocated: END at 0, used size 1
NewDict(inl, size, min_size) ==
    [buffer |-> <<UDICT_TYPE_END>>, umem_size |-> Max(size, min_size)]

\* ulifo_push: false when the pool is full
PoolPush(m, inl) ==
    IF Len(m.udict_pool) < m.udict_pool_depth
    THEN [m EXCEPT !.udict_pool = <<inl>> \o @]
    ELSE m

\* m: the manager once the pool has been popped; inl: the structure, NULL
\* when malloc failed
AllocStruct(m, inl, size, fails) ==
    IF inl = NULL THEN [mgr |-> m, udict |-> NULL]
    ELSE IF fails = "umem"
    THEN [mgr |-> PoolPush(m, inl[1]), udict |-> NULL]
    ELSE [mgr |-> [m EXCEPT !.refcount = @ + 1],
          udict |-> Ptr(NewDict(inl[1], size, m.min_size))]

\* what malloc leaves in the used size of a new structure
MallocSizes == {1, 6}

AllocIn(m, size, fails, uninit) ==
    IF m.udict_pool # <<>>
    THEN AllocStruct([m EXCEPT !.udict_pool = Tail(@)],
                     Ptr(Head(m.udict_pool)), size, fails)
    ELSE AllocStruct(m, IF fails = "malloc" THEN NULL
                        ELSE Ptr([size |-> uninit]),
                     size, fails)

\* udict_inline_free: the umem is freed, the structure goes to the pool
\* if there is room, the dictionary gives its reference back
FreeIn(m, d) ==
    [PoolPush(m, [size |-> Len(d.buffer)]) EXCEPT !.refcount = @ - 1]

\* Dictionaries kept by reference.  structs: the struct udict_inline
\* objects, each [umem, size]; mems: the umem objects, each with the octets
\* written (buffer) and its capacity (umem_size).
\* the first size octets of a umem
Used(octets, size) ==
    [i \in 1..size |-> IF i <= Len(octets) THEN octets[i] ELSE 0]

\* the dictionary h as a value
ViewOf(structs, mems, h) ==
    [buffer |-> Used(mems[structs[h].umem].buffer, structs[h].size),
     umem_size |-> mems[structs[h].umem].umem_size]

\* the struct that shares the umem of the original
DupStructSharing(structs, mems, h) ==
    Append(structs, structs[h])

\* udict_inline_dup: the new struct has the umem just allocated and the
\* size of the original
DupStruct(structs, mems, h) ==
    Append(structs, [umem |-> Len(mems) + 1, size |-> structs[h].size])

\* udict_inline_dup: the umem allocated and filled by memcpy
DupUmem(structs, mems, h) ==
    Append(mems, udict_inline_dup(ViewOf(structs, mems, h)))

\* dictionary h after an operation left it as d
StoreStruct(structs, h, d) ==
    [structs EXCEPT ![h].size = Len(d.buffer)]
StoreUmem(structs, mems, h, d) ==
    [mems EXCEPT ![structs[h].umem] = d]

\* the entry of a shorthand type: a pointer to it, or NULL.  The bound that
\* is checked is one past the table, so the type just after the last
\* shorthand reads the memory that follows the table (oob).
ShorthandIn(table, type) ==
    IF type > UDICT_TYPE_SHORTHAND + 1 + Len(table) THEN NULL
    ELSE IF type - UDICT_TYPE_SHORTHAND > Len(table)
    THEN Ptr([name |-> "", base_type |-> UDICT_TYPE_END, oob |-> TRUE])
    ELSE Ptr([name |-> table[type - UDICT_TYPE_SHORTHAND].name,
              base_type |-> table[type - UDICT_TYPE_SHORTHAND].base_type,
              oob |-> FALSE])

udict_inline_shorthand(type) == ShorthandIn(inline_shorthands, type)

Size16(buffer, attr) == At(buffer, attr + 1) * 256 + At(buffer, attr + 2)

\* jumps to the next attribute
\* shorthand: the entry of the type at attr, looked up when it is one
NextOf(buffer, attr, shorthand) ==
    IF At(buffer, attr) = UDICT_TYPE_END THEN NullAttr
    ELSE IF At(buffer, attr) > UDICT_TYPE_SHORTHAND /\ shorthand = NULL
    THEN NullAttr
    ELSE IF At(buffer, attr) > UDICT_TYPE_SHORTHAND
            /\ ~IsVariable(shorthand[1].base_type)
    THEN attr + AttrSize(shorthand[1].base_type) + 1
    ELSE attr + 3 + Size16(buffer, attr)

udict_inline_next(buffer, attr) ==
    NextOf(buffer, attr, udict_inline_shorthand(At(buffer, attr)))

\* the NUL-terminated string at an offset, without the NUL
RECURSIVE CString(_, _)
CString(buffer, offset) ==
    IF At(buffer, offset) = 0 THEN <<>>
    ELSE <<At(buffer, offset)>> \o CString(buffer, offset + 1)

RECURSIVE FindFrom(_, _, _, _)
FindFrom(buffer, attr, name, type) ==
    IF attr = NullAttr THEN NullAttr
    ELSE IF At(buffer, attr) = type
            /\ (type > UDICT_TYPE_SHORTHAND \/ type = UDICT_TYPE_END
                \/ CString(buffer, attr + 3) = name)
    THEN attr
    ELSE FindFrom(buffer, udict_inline_next(buffer, attr), name, type)

\* a lookup that starts at the second record
udict_inline_find_from_second(buffer, name, type) ==
    FindFrom(buffer, udict_inline_next(buffer, 0), name, type)

\* finds the attribute of the given name and type
udict_inline_find(buffer, name, type) == FindFrom(buffer, 0, name, type)

\* one step of an iteration: from (name, type) to the following attribute;
\* the iteration starts and ends with type END
\* attr: the attribute the iteration has moved to, or NULL
IterateAt(buffer, name, attr) ==
    IF attr = NullAttr \/ At(buffer, attr) = UDICT_TYPE_END
    THEN [name |-> name, type |-> UDICT_TYPE_END]
    ELSE [name |-> IF At(buffer, attr) > UDICT_TYPE_SHORTHAND THEN <<>>
                   ELSE CString(buffer, attr + 3),
          type |-> At(buffer, attr)]

\* found: where udict_inline_find found the current attribute
IterateAfter(buffer, name, type, found) ==
    IterateAt(buffer, name,
              IF type # UDICT_TYPE_END
              THEN IF found # NullAttr
                   THEN udict_inline_next(buffer, found) ELSE NullAttr
              ELSE 0)

udict_inline_iterate(buffer, name, type) ==
    IterateAfter(buffer, name, type, udict_inline_find(buffer, name, type))

\* a lookup of the value that forgets the NUL ending the name
udict_inline_get_without_nul(buffer, name, type) ==
    LET attr == udict_inline_find(buffer, name, type)
        shorthand == udict_inline_shorthand(At(buffer, attr))
    IN IF attr = NullAttr THEN [attr |-> NullAttr, size |-> 0]
       ELSE IF type > UDICT_TYPE_SHORTHAND
       THEN IF shorthand = NULL THEN [attr |-> NullAttr, size |-> 0]
            ELSE IF ~IsVariable(shorthand[1].base_type)
            THEN [attr |-> attr + 1,
                  size |-> AttrSize(shorthand[1].base_type)]
            ELSE [attr |-> attr + 3, size |-> Size16(buffer, attr)]
       ELSE [attr |-> attr + 3 + Len(name),
             size |-> Size16(buffer, attr) - Len(name)]

\* offset and size of the value of an attribute; attr is NULL when absent
\* attr: where udict_inline_find found the attribute; shorthand: the entry
\* of the type found there
GetAt(buffer, name, type, attr, shorthand) ==
    IF attr = NullAttr THEN [attr |-> NullAttr, size |-> 0]
    ELSE IF type > UDICT_TYPE_SHORTHAND
    THEN IF shorthand = NULL THEN [attr |-> NullAttr, size |-> 0]
         ELSE IF ~IsVariable(shorthand[1].base_type)
         THEN [attr |-> attr + 1, size |-> AttrSize(shorthand[1].base_type)]
         ELSE [attr |-> attr + 3, size |-> Size16(buffer, attr)]
    ELSE [attr |-> attr + 4 + Len(name),
          size |-> Size16(buffer, attr) - Len(name) - 1]

GetFound(buffer, name, type, attr) ==
    GetAt(buffer, name, type, attr, udict_inline_shorthand(At(buffer, attr)))

udict_inline_get(buffer, name, type) ==
    GetFound(buffer, name, type, udict_inline_find(buffer, name, type))

\* a deletion that moves the octets but leaves inl->size as it was
udict_inline_delete_keeping_size(d, name, type) ==
    LET attr == udict_inline_find(d.buffer, name, type)
        end == udict_inline_next(d.buffer, attr)
    IN IF attr = NullAttr THEN [d |-> d, ret |-> FALSE]
       ELSE [d |-> [d EXCEPT !.buffer =
                        Take(@, attr) \o Drop(@, end)
                        \o Drop(@, Len(@) - (end - attr))],
             ret |-> TRUE]

\* a deletion that cuts the dictionary at the attribute
DeleteAtCuttingTail(d, attr, end) ==
    IF attr = NullAttr THEN [d |-> d, ret |-> FALSE]
    ELSE [d |-> [d EXCEPT !.buffer = Take(@, attr) \o <<UDICT_TYPE_END>>],
          ret |-> TRUE]

\* deletes an attribute; ret tells whether it existed
\* attr: where udict_inline_find found the attribute; end: the attribute
\* that follows it
DeleteAt(d, attr, end) ==
    IF attr = NullAttr THEN [d |-> d, ret |-> FALSE]
    ELSE [d |-> [d EXCEPT !.buffer = Take(@, attr) \o Drop(@, end)],
          ret |-> TRUE]

DeleteFound(d, attr) == DeleteAt(d, attr, udict_inline_next(d.buffer, attr))

udict_inline_delete(d, name, type) ==
    DeleteFound(d, udict_inline_find(d.buffer, name, type))


\* octets of a umem that were never written
Unwritten(n) == [i \in 1..n |-> 255]
Zeroes(n) == [i \in 1..n |-> 0]

\* the header of a new record; the size goes through a uint16_t
HeaderOf(name, type, shorthand, attr_size) ==
    IF shorthand = NULL
    THEN <<type, ((Len(name) + 1 + attr_size) % 65536) \div 256,
           (Len(name) + 1 + attr_size) % 256>> \o name \o <<0>>
    ELSE IF IsVariable(shorthand[1].base_type)
    THEN <<type, (attr_size % 65536) \div 256, attr_size % 256>>
    ELSE <<type>>

\* the assertions of udict_inline_set on the size of a new record
SetAsserts(name, shorthand, attr_size) ==
    IF shorthand = NULL THEN Len(name) + 1 + attr_size <= UINT16_MAX
    ELSE IsVariable(shorthand[1].base_type) => attr_size <= UINT16_MAX

\* an append that reallocates only when the record does not fit
SetAppendWhenExceeding(deleted, header, attr_size, end, total_size) ==
    [d |-> [buffer |-> Take(deleted.buffer, end) \o header
                       \o Unwritten(attr_size) \o <<UDICT_TYPE_END>>,
            umem_size |-> IF total_size > deleted.umem_size
                          THEN total_size + MgrExtraSize
                          ELSE deleted.umem_size],
     ret |-> TRUE, attr |-> end + Len(header)]

\* adds or changes an attribute, the value excluded: attr is the offset
\* where the caller writes the attr_size octets of the value
\* appends a record to a dictionary the attribute is not in; end is the
\* offset of its END, total_size the size with the new record
SetAppend(deleted, header, attr_size, end, total_size) ==
    [d |-> [buffer |-> Take(deleted.buffer, end) \o header
                       \o Unwritten(attr_size) \o <<UDICT_TYPE_END>>,
            umem_size |-> IF total_size >= deleted.umem_size
                          THEN total_size + MgrExtraSize
                          ELSE deleted.umem_size],
     ret |-> TRUE, attr |-> end + Len(header)]

SetNew(deleted, header, attr_size) ==
    SetAppend(deleted, header, attr_size, Len(deleted.buffer) - 1,
              Len(deleted.buffer) - 1 + Len(header) + attr_size + 1)

\* a set that leaves the end of a longer string where it is
SetWithoutZeroing(d, name, type, attr_size, shorthand, base_type, current) ==
    IF type > UDICT_TYPE_SHORTHAND /\ shorthand = NULL
    THEN [d |-> d, ret |-> FALSE, attr |-> NullAttr]
    ELSE IF current.attr # NullAttr
            /\ (~IsVariable(base_type) \/ current.size >= attr_size)
    THEN [d |-> d, ret |-> TRUE, attr |-> current.attr]
    ELSE SetNew(IF current.attr # NullAttr
                THEN udict_inline_delete(d, name, type).d ELSE d,
                HeaderOf(name, type, shorthand, attr_size), attr_size)

\* shorthand: the entry of a shorthand type, else NULL; base_type: its base
\* type; current: what _udict_inline_get returned
SetWith(d, name, type, attr_size, shorthand, base_type, current) ==
    IF type > UDICT_TYPE_SHORTHAND /\ shorthand = NULL
    THEN [d |-> d, ret |-> FALSE, attr |-> NullAttr]
    ELSE IF current.attr # NullAttr
            /\ (~IsVariable(base_type) \/ current.size = attr_size)
    THEN [d |-> d, ret |-> TRUE, attr |-> current.attr]
    ELSE IF current.attr # NullAttr /\ base_type = UDICT_TYPE_STRING
            /\ current.size > attr_size
    THEN [d |-> [d EXCEPT !.buffer =
                     Take(@, current.attr + attr_size)
                     \o Zeroes(current.size - attr_size)
                     \o Drop(@, current.attr + current.size)],
          ret |-> TRUE, attr |-> current.attr]
    ELSE SetNew(IF current.attr # NullAttr
                THEN udict_inline_delete(d, name, type).d ELSE d,
                HeaderOf(name, type, shorthand, attr_size), attr_size)

SetOf(d, name, type, attr_size, shorthand) ==
    SetWith(d, name, type, attr_size, shorthand,
            IF shorthand # NULL THEN shorthand[1].base_type ELSE type,
            udict_inline_get(d.buffer, name, type))

udict_inline_set(d, name, type, attr_size) ==
    SetOf(d, name, type, attr_size,
          IF type > UDICT_TYPE_SHORTHAND
          THEN udict_inline_shorthand(type) ELSE NULL)

\* r: what udict_inline_set returns when its assertions are compiled out;
\* current: what _udict_inline_get returned.  True when the call comes to
\* the header of a new record and an assertion fails there.
SetFailsAssert(r, current, name, shorthand, attr_size) ==
    /\ r.ret
    /\ r.attr # current.attr
    /\ ~SetAsserts(name, shorthand, attr_size)

\* the dictionary as the failed assertion leaves it: the record that
\* existed is deleted and the umem reallocated, nothing is written
SetAborted(d, r, current, name, type) ==
    [buffer |-> IF current.attr # NullAttr
                THEN udict_inline_delete(d, name, type).d.buffer
                ELSE d.buffer,
     umem_size |-> r.d.umem_size]

\* names a shorthand attribute
\* shorthand: what udict_inline_shorthand returned
NameOf(shorthand) ==
    IF shorthand = NULL THEN [ret |-> FALSE, entry |-> NULL]
    ELSE [ret |-> TRUE, entry |-> shorthand]

udict_inline_name(type) ==
    IF type <= UDICT_TYPE_SHORTHAND THEN [ret |-> FALSE, entry |-> NULL]
    ELSE NameOf(udict_inline_shorthand(type))

\* the caller of udict_inline_set then copies the value to attr
WriteValue(d, attr, value) ==
    [d EXCEPT !.buffer = Take(@, attr) \o value \o Drop(@, attr + Len(value))]

\* r: what udict_inline_set returned
WriteThrough(r, value) ==
    IF r.ret THEN [r EXCEPT !.d = WriteValue(r.d, r.attr, value)] ELSE r

udict_set(d, name, type, value) ==
    WriteThrough(udict_inline_set(d, name, type, Len(value)), value)

\* the value an attribute reads as: <<>> when absent, else <<octets>>
ReadThrough(d, r) ==
    IF r.attr = NullAttr THEN NULL
    ELSE Ptr(SubSeq(d.buffer, r.attr + 1, r.attr + r.size))

udict_get(d, name, type) ==
    ReadThrough(d, udict_inline_get(d.buffer, name, type))

\* the attributes an iteration yields, from END to END; an iteration that
\* has not ended after fuel steps is cut there
RECURSIVE IterateFrom(_, _, _)
IterateFrom(buffer, cur, fuel) ==
    LET nxt == udict_inline_iterate(buffer, cur.name, cur.type)
    IN IF nxt.type = UDICT_TYPE_END \/ fuel = 0 THEN <<>>
       ELSE <<nxt>> \o IterateFrom(buffer, nxt, fuel - 1)
Iterate(d) ==
    IterateFrom(d.buffer, [name |-> <<>>, type |-> UDICT_TYPE_END],
                Len(d.buffer))

\* the offsets met by walking the size used octets of the buffer with
\* udict_inline_next, the last one being where the walk stops; the umem
\* octets after the used ones read as zero
RECURSIVE WalkFrom(_, _, _)
WalkFrom(buffer, attr, size) ==
    IF attr >= size THEN <<attr>>
    ELSE IF udict_inline_next(buffer, attr) = NullAttr THEN <<attr>>
    ELSE <<attr>> \o WalkFrom(buffer, udict_inline_next(buffer, attr), size)
Walk(d) == WalkFrom(d.buffer \o Zeroes(2), 0, Len(d.buffer))

\* the (name, type) of the record at an offset
KeyAt(buffer, attr) ==
    [name |-> IF At(buffer, attr) > UDICT_TYPE_SHORTHAND THEN <<>>
              ELSE CString(buffer, attr + 3),
     type |-> At(buffer, attr)]

(***************************************************************************)
(* The attributes and values the dictionary is exercised with.             *)
(***************************************************************************)
UDICT_TYPE_FLOW_DISC == UDICT_TYPE_SHORTHAND + 1
UDICT_TYPE_FLOW_DEF == UDICT_TYPE_SHORTHAND + 4
UDICT_TYPE_CLOCK_PTS == UDICT_TYPE_SHORTHAND + 10

Keys ==
    { [name |-> <<97>>, type |-> UDICT_TYPE_OPAQUE],
      [name |-> <<97>>, type |-> UDICT_TYPE_STRING],
      [name |-> <<97, 98>>, type |-> UDICT_TYPE_STRING],
      [name |-> <<>>, type |-> UDICT_TYPE_FLOW_DISC],
      [name |-> <<>>, type |-> UDICT_TYPE_FLOW_DEF],
      [name |-> <<>>, type |-> UDICT_TYPE_CLOCK_PTS] }

BaseType(type) ==
    IF type > UDICT_TYPE_SHORTHAND
    THEN udict_inline_shorthand(type)[1].base_type ELSE type

\* the values a caller stores for a base type; a string ends with its NUL
ValuesOf(base_type) ==
    IF base_type = UDICT_TYPE_OPAQUE THEN { <<2>>, <<0, 3, 1>> }
    ELSE IF base_type = UDICT_TYPE_STRING
    THEN { <<120, 0>>, <<121, 122, 123, 124, 0>> }
    ELSE IF base_type = UDICT_TYPE_UNSIGNED
    THEN { <<0, 0, 0, 0, 0, 0, 0, 7>>, <<1, 2, 3, 0, 0, 0, 16, 2>> }
    ELSE { <<>> }

\* shadow is what the caller stored: for each key NULL or <<value>>
NoAttributes == [k \in Keys |-> NULL]


(***************************************************************************)
(* The dictionary as a state machine: one dictionary, allocated by         *)
(* udict_inline_alloc, then changed by set, delete and dup (the duplicate  *)
(* takes the place of the dictionary).                                     *)
(***************************************************************************)
AllocSizes == {0, 12}

FramerIdle ==
    /\ mp2vf = upipe_mp2vf_alloc(CHOOSE u \in Uninitialised : TRUE)
    /\ pc = "dict"
    /\ stream = <<>>
    /\ fed = 0
    /\ accepted = <<>>
    /\ nflowdefs = 0
    /\ nurefs = 0
    /\ inputs = <<>>

InitDict ==
    /\ FramerIdle
    /\ mgr = TheManager
    /\ umems = <<>>
    /\ \E size \in AllocSizes : udict = udict_inline_alloc(size)
    /\ shadow = NoAttributes
    /\ nops = 0
    /\ lastop = [op |-> "alloc", name |-> <<>>, type |-> UDICT_TYPE_END,
                 value |-> <<>>, ret |-> TRUE, realloc |-> FALSE,
                 existed |-> FALSE, appended |-> FALSE]

DictSet ==
    /\ nops < MaxOps
    /\ \E k \in Keys : \E value \in ValuesOf(BaseType(k.type)) :
         \E r \in {udict_set(udict, k.name, k.type, value)} :
            /\ udict' = r.d
            /\ shadow' = IF r.ret THEN [shadow EXCEPT ![k] = Ptr(value)]
                         ELSE shadow
            /\ lastop' = [op |-> "set", name |-> k.name, type |-> k.type,
                          value |-> value, ret |-> r.ret,
                          realloc |-> r.d.umem_size # udict.umem_size,
                          existed |-> shadow[k] # NULL,
                          appended |->
                              r.attr # udict_inline_get(udict.buffer, k.name,
                                                        k.type).attr]
    /\ nops' = nops + 1
    /\ UNCHANGED <<mgr, umems, framer_vars>>

DictDelete ==
    /\ nops < MaxOps
    /\ \E k \in Keys :
         \E r \in {udict_inline_delete(udict, k.name, k.type)} :
            /\ udict' = r.d
            /\ shadow' = [shadow EXCEPT ![k] = NULL]
            /\ lastop' = [op |-> "delete", name |-> k.name, type |-> k.type,
                          value |-> <<>>, ret |-> r.ret, realloc |-> FALSE,
                          existed |-> shadow[k] # NULL, appended |-> FALSE]
    /\ nops' = nops + 1
    /\ UNCHANGED <<mgr, umems, framer_vars>>

DictDup ==
    /\ nops < MaxOps
    /\ udict' = udict_inline_dup(udict)
    /\ lastop' = [op |-> "dup", name |-> <<>>, type |-> UDICT_TYPE_END,
                  value |-> <<>>, ret |-> TRUE,
                  realloc |-> udict_inline_dup(udict).umem_size
                              # udict.umem_size,
                  existed |-> FALSE, appended |-> FALSE]
    /\ nops' = nops + 1
    /\ UNCHANGED <<mgr, shadow, umems, framer_vars>>

NextDict == DictSet \/ DictDelete \/ DictDup

SpecDict == InitDict /\ [][NextDict]_vars


(***************************************************************************)
(* Properties of the dictionary, checked under SpecDict.                   *)
(***************************************************************************)
Surviving == {k \in Keys : shadow[k] # NULL}
Iterated == {[name |-> Iterate(udict)[i].name, type |-> Iterate(udict)[i].type] :
                 i \in 1..Len(Iterate(udict))}
Records == {Walk(udict)[i] : i \in 1..(Len(Walk(udict)) - 1)}

IterateYieldsSurviving ==
    /\ Iterated = Surviving
    /\ Len(Iterate(udict)) = Cardinality(Surviving)

\* value, then nothing but zero octets
ZeroPadded(read, value) ==
    /\ Len(read) >= Len(value)
    /\ Take(read, Len(value)) = value
    /\ \A i \in (Len(value) + 1)..Len(read) : read[i] = 0

\* C3 as stated: after any sets and deletes, iterating yields exactly the
\* pairs set and not deleted, each once, and get on a surviving pair returns
\* the value last written with the size last requested.
C3_GetReturnsSizeLastRequested ==
    /\ IterateYieldsSurviving
    /\ \A k \in Keys : udict_get(udict, k.name, k.type) = shadow[k]

\* C3, amended: iterating yields exactly the surviving pairs, each once; get
\* on a deleted or never set pair finds nothing; get on a surviving pair
\* returns the value last written with the size last requested, except that
\* a string written over a longer string of the same pair keeps the size of
\* the record and reads as the value followed by zero octets.
C3_GetReturnsLastValueZeroPadded ==
    /\ IterateYieldsSurviving
    /\ \A k \in Keys :
         IF shadow[k] = NULL THEN udict_get(udict, k.name, k.type) = NULL
         ELSE /\ udict_get(udict, k.name, k.type) # NULL
              /\ ZeroPadded(udict_get(udict, k.name, k.type)[1], shadow[k][1])
              /\ BaseType(k.type) # UDICT_TYPE_STRING
                 => udict_get(udict, k.name, k.type) = shadow[k]

\* a pair was deleted while a shortened string and another pair survive
C3_Witness ==
    /\ lastop.op = "delete" /\ lastop.ret
    /\ Cardinality(Surviving) >= 1
    /\ \E k \in Surviving : udict_get(udict, k.name, k.type) # shadow[k]

\* C4: after alloc and after any set, delete and dup, the octet at size-1 of
\* the used buffer is the END type code, the used buffer fits the umem, and
\* walking the records from offset 0 with udict_inline_next stops exactly at
\* that octet.
C4_EndAtSizeMinusOne ==
    /\ Len(udict.buffer) >= 1
    /\ Len(udict.buffer) <= udict.umem_size
    /\ At(udict.buffer, Len(udict.buffer) - 1) = UDICT_TYPE_END
    /\ Walk(udict)[Len(Walk(udict))] = Len(udict.buffer) - 1

\* a set that reallocated the buffer left at least two records
C4_Witness ==
    /\ lastop.op = "set" /\ lastop.ret /\ lastop.realloc
    /\ Cardinality(Records) >= 2

\* C5: in every state reached by alloc, set, delete and dup no two records
\* of the dictionary have the same (name, type).
C5_NoTwoRecordsSamePair ==
    \A a, b \in Records :
        KeyAt(udict.buffer, a) = KeyAt(udict.buffer, b) => a = b

\* a pair that existed was set again and its record appended anew, or its
\* record reused, next to other records
C5_Witness ==
    /\ lastop.op = "set" /\ lastop.existed /\ lastop.appended
    /\ Cardinality(Records) >= 2


(***************************************************************************)
(* Properties of the framer, checked under SpecFramer.                     *)
(***************************************************************************)
Frames == SelectFrames(mp2vf.sink)
Payloads(sink) ==
    [i \in 1..Len(SelectFrames(sink)) |-> SelectFrames(sink)[i].block]

\* the pipe that was given the flow definition once, then the octets
\* accepted so far as a single uref
InOneUref ==
    RunWork(InputBlock(InputFlowDefinition(upipe_mp2vf_alloc(mp2vf.uninit),
                                           mp2vf.flow_def_input[1]),
                       [dict |-> EmptyDict, block |-> Flatten(accepted)]))

\* true between two calls of input of a pipe that was given one flow
\* definition, which it accepted, and then octets
OneFlowDefThenOctets ==
    /\ pc = "idle"
    /\ nflowdefs = 1
    /\ mp2vf.flow_def_input # NULL
    /\ accepted # <<>>

\* C1: however the stream is cut into input urefs, a cut inside a start code
\* included, the payloads of the frames output, in order, are those output
\* when the same octets come as a single uref.
C1_FramesIndependentOfCutting ==
    OneFlowDefThenOctets => Payloads(mp2vf.sink) = Payloads(InOneUref.sink)

\* the whole of a stream came in two urefs, cut between the second and the
\* third octet of a picture start code, and two frames were output
C1_Witness ==
    /\ OneFlowDefThenOctets
    /\ Len(accepted) = 2
    /\ Flatten(accepted) = stream
    /\ Len(accepted[1]) >= 2
    /\ Drop(accepted[1], Len(accepted[1]) - 2) = <<0, 0>>
    /\ Take(accepted[2], 2) = <<1, MP2VPIC_START_CODE>>
    /\ Len(Frames) >= 2


\* the offsets of a block where the start code of the given value begins
StartCodes(block, code) ==
    {i \in 0..(Len(block) - 4) :
        SubSeq(block, i + 1, i + 4) = <<0, 0, 1, code>>}
\* the octets of a stream from its first sequence start code on
FromFirstSequence(s) ==
    IF StartCodes(s, MP2VSEQ_START_CODE) = {} THEN <<>>
    ELSE Drop(s, Min(StartCodes(s, MP2VSEQ_START_CODE)))

\* true when the blocks are found one after the other, in order and without
\* overlap, in the octets s
RECURSIVE InOrderIn(_, _)
InOrderIn(blocks, s) ==
    IF blocks = <<>> THEN TRUE
    ELSE LET at == {i \in 0..(Len(s) - Len(Head(blocks))) :
                       SubSeq(s, i + 1, i + Len(Head(blocks))) = Head(blocks)}
         IN at # {}
            /\ InOrderIn(Tail(blocks), Drop(s, Min(at) + Len(Head(blocks))))

SyncNeverLost ==
    mp2vf.acquired /\ \A i \in 1..Len(mp2vf.events) : mp2vf.events[i] # "sync_lost"

\* C2 as stated: once the whole stream has been input, one frame has been
\* emitted for every picture start code of the stream, and the payloads
\* emitted, concatenated, are the stream without the octets that precede
\* its first sequence start code.
C2_OneFramePerPictureStartCode ==
    (pc = "idle" /\ accepted # <<>> /\ Flatten(accepted) = stream
     /\ ~mp2vf.crashed)
    => /\ Len(Frames) = Cardinality(StartCodes(stream, MP2VPIC_START_CODE))
       /\ Flatten(Payloads(mp2vf.sink)) = FromFirstSequence(stream)

\* C2, amended: every frame emitted holds exactly one picture start code;
\* the payloads emitted are pieces of the input, in input order and without
\* overlap; and as long as sync, once acquired, has not been lost, the
\* payloads emitted followed by the octets still held by the framer are the
\* input without the octets that precede its first sequence start code (the
\* last picture is held until a start code closes it).
C2_FramesArePiecesOfTheStream ==
    (pc = "idle" /\ accepted # <<>>)
    => /\ \A i \in 1..Len(Frames) :
            Cardinality(StartCodes(Frames[i].block, MP2VPIC_START_CODE)) = 1
       /\ InOrderIn(Payloads(mp2vf.sink), Flatten(accepted))
       /\ SyncNeverLost
          => Flatten(Payloads(mp2vf.sink)) \o mp2vf.block
             = FromFirstSequence(Flatten(accepted))

\* two frames were emitted and a third is held, after octets were dropped
\* before the first sequence start code
C2_Witness ==
    /\ pc = "idle" /\ Flatten(accepted) = stream
    /\ SyncNeverLost
    /\ Len(Frames) >= 2
    /\ StartCodes(mp2vf.block, MP2VPIC_START_CODE) # {}
    /\ Len(FromFirstSequence(stream)) < Len(stream)


\* what a step has sent downstream
Delivered == Drop(mp2vf'.sink, Len(mp2vf.sink))
\* a step of upipe_mp2vf_work that closes a frame
ClosingStep ==
    /\ pc = "work"
    /\ mp2vf' # mp2vf
    /\ mp2vf'.last \in {"output", "erroneous"}
Appended(event) == mp2vf'.events = Append(mp2vf.events, event)

\* C6 as stated: a frame is output only if, in the frame, a picture start
\* code has been seen and a slice start code has followed it; no frame is
\* output while next_frame_slice is false.
C6_FrameOutputOnlyAfterSlice ==
    [][SelectFrames(Delivered) # <<>>
       => mp2vf.next_frame_offset # 0 - 1 /\ mp2vf.next_frame_slice]_vars

\* C7: while sync is not acquired nothing is output; a step that meets a
\* start code drops every octet before it; sync is acquired, and
\* sync_acquired raised, exactly by the step that meets the sequence start
\* code, which sets next_frame_sequence and leaves the frame starting at
\* that code; any other start code leaves the framer unsynchronised.
C7_SyncAcquiredOnSequenceStartCode ==
    [][~mp2vf.acquired /\ pc = "work" /\ mp2vf' # mp2vf
       => /\ Delivered = <<>>
          /\ mp2vf'.last \in {"scan", "return"}
          /\ mp2vf'.last = "return" => ~mp2vf'.acquired
          /\ mp2vf'.last = "scan"
             => /\ Take(mp2vf'.block, 3) = FIND_START
                /\ mp2vf'.block
                   = Drop(mp2vf.block,
                          Min({i \in mp2vf.next_frame_size..(Len(mp2vf.block) - 3) :
                                 SubSeq(mp2vf.block, i + 1, i + 3)
                                 = FIND_START}))
                /\ mp2vf'.next_frame_size = 4
                /\ IF At(mp2vf'.block, 3) = MP2VSEQ_START_CODE
                   THEN /\ mp2vf'.acquired
                        /\ mp2vf'.next_frame_sequence
                        /\ Appended("sync_acquired")
                   ELSE /\ ~mp2vf'.acquired
                        /\ mp2vf'.events = mp2vf.events]_vars

\* sync was acquired after a picture, a GOP and a user data start code had
\* been met and dropped
C7_Witness ==
    /\ mp2vf.acquired /\ mp2vf.last = "scan"
    /\ Take(Flatten(accepted), 2) = <<255, 0>>
    /\ Take(mp2vf.block, 4) = <<0, 0, 1, MP2VSEQ_START_CODE>>

\* true when the sequence header at the head of a frame fails validation
FailsValidation(block) ==
    LET ext == upipe_mp2vf_find_ext(block, MP2VSEQ_HEADER_SIZE)
        x == Drop(block, ext.offset)
    IN \/ frame_rate_from_code[mp2vseq_get_framerate(block) + 1].num = 0
       \/ ~ValidAspect(mp2vseq_get_aspect(block))
       \/ ext.found /\ ext.start # MP2VX_ID_SEQX
       \/ /\ ext.found /\ ext.start = MP2VX_ID_SEQX
          /\ \/ ~ValidLevel(Low(mp2vseqx_get_profilelevel(x), 4))
             \/ ~ValidChroma(mp2vseqx_get_chroma(x))
BeginsWithSequence(block) ==
    Len(block) >= MP2VSEQ_HEADER_SIZE
    /\ Take(block, 4) = <<0, 0, 1, MP2VSEQ_START_CODE>>

\* C8 as stated: a frame that begins with a sequence header failing
\* validation is never forwarded downstream, whatever was received before.
C8_InvalidSequenceNeverForwarded ==
    \A i \in 1..Len(Frames) :
        BeginsWithSequence(Frames[i].block)
        => ~FailsValidation(Frames[i].block)

\* the octets of the frame that a closing step handles
FrameOfStep == Take(mp2vf.block, Len(mp2vf.block) - Len(mp2vf'.block))
Cache(w) == <<w.sequence_header, w.sequence_ext, w.sequence_display>>
FlowDefThenFrame ==
    /\ Len(Delivered) = 2
    /\ Delivered[1].kind = "flow_def"
    /\ Delivered[1].dict = mp2vf'.flow_def[1]
    /\ Delivered[2].kind = "frame"
NothingStored ==
    /\ mp2vf'.flow_def = mp2vf.flow_def
    /\ mp2vf'.flow_def_sent \/ ~mp2vf.flow_def_sent

\* C9 as stated: for each frame that begins with a sequence header, if its
\* sequence headers are the cached ones no flow definition is produced and
\* the cache is replaced, and otherwise exactly one flow definition is
\* stored and delivered before the frame.
C9_OneFlowDefPerNewSequence ==
    [][ClosingStep /\ mp2vf.next_frame_sequence
       => IF Cache(mp2vf') = Cache(mp2vf) THEN NothingStored
          ELSE FlowDefThenFrame]_vars

\* C9, amended: for each frame that begins with a sequence header, if its
\* sequence headers are the cached ones no flow definition is produced;
\* otherwise the cache is replaced and, if the new headers fail validation,
\* no flow definition is stored and the frame is not forwarded, else
\* exactly one flow definition is stored, which is delivered just before
\* the frame if the frame is forwarded and stays pending if the picture
\* headers of the frame are refused.
C9_OneFlowDefPerValidNewSequence ==
    [][ClosingStep /\ mp2vf.next_frame_sequence
       => IF Cache(mp2vf') = Cache(mp2vf) THEN NothingStored
          ELSE IF FailsValidation(FrameOfStep)
          THEN NothingStored /\ Delivered = <<>>
               /\ mp2vf'.last = "erroneous"
          ELSE IF mp2vf'.last = "output" THEN FlowDefThenFrame
          ELSE /\ Delivered = <<>>
               /\ mp2vf'.flow_def # NULL
               /\ ~mp2vf'.flow_def_sent]_vars

\* the two I frames whose sequence headers differ in the aspect code were
\* output, each after a flow definition of its own
C9_Witness ==
    /\ stream = Flatten(AspectChange)
    /\ Len(mp2vf.sink) = 4
    /\ mp2vf.sink[1].kind = "flow_def" /\ mp2vf.sink[2].kind = "frame"
    /\ mp2vf.sink[3].kind = "flow_def" /\ mp2vf.sink[4].kind = "frame"
    /\ mp2vf.sink[1].dict.aspect # mp2vf.sink[3].dict.aspect

\* C10 as stated: on a fresh pipe the pictures of the IBBP stream, whose
\* temporal references are 0, 2, 3, 1, are output with p.num 0, 2, 3, 1.
C10_PictureNumbersAreTemporalReferences ==
    (stream = Flatten(IBBP) /\ nflowdefs = 1 /\ Len(Frames) = 4)
    => [i \in 1..4 |-> Frames[i].dict.num] = <<0, 2, 3, 1>>

(***************************************************************************)
(* Timestamps and discontinuities: the pipe taken one iteration at a time, *)
(* fed with urefs that carry k.dts or f.disc.                              *)
(***************************************************************************)
\* payload urefs of the streams with timestamps and discontinuities
MaxDiscUrefs == 3

\* picture coding extension with repeat_first_field
PICXRepeat == <<0, 0, 1, MP2VX_START_CODE, MP2VX_ID_PICX * 16 + 15, 255,
                240 + MP2VPICX_FRAME_PICTURE, 128 + 2, 128>>

DiscScenarios ==
    { \* MPEG-2, progressive sequence: three frames, the first one repeated
      <<SeqOk, SEQX(72, 1, MP2VSEQX_CHROMA_420), PicI, PICXRepeat, SLICE,
        PIC(1, MP2VPIC_TYPE_P), PICX, SLICE,
        PIC(2, MP2VPIC_TYPE_P), PICX, SLICE, END>>,
      \* MPEG-1: two I frames in closed groups of pictures
      <<SeqOk, GOP(1, 0), PicI, SLICE, SLICE, SeqOk, GOP(1, 0), PicI, SLICE,
        END>>,
      \* MPEG-1: I frames without group of pictures, one without sequence
      <<SeqOk, PicI, SLICE, SLICE, PicI, SLICE, SeqOk, PicI, SLICE, END>>,
      Groups }

DiscStreams == { Flatten(s) : s \in DiscScenarios }

\* the sizes of the urefs the upstream pipe cuts these streams into
UrefSizes == {9, 14, 23, 30}

\* a uref carrying k.dts
TimedDict == [EmptyDict EXCEPT !.ts.dts = 1000]
\* a uref carrying k.pts, k.pts.sys and k.dts.orig
StampedDict ==
    [EmptyDict EXCEPT !.ts.pts = 9000, !.ts.pts_sys = 9500,
                      !.ts.dts_orig = 8000]
\* a uref carrying f.disc
DiscDict == [EmptyDict EXCEPT !.disc = TRUE]

\* upipe_mp2vf_input of a payload uref up to the call of upipe_mp2vf_work;
\* the first uref may carry k.dts, the second one k.pts, k.pts.sys and
\* k.dts.orig, the others may carry f.disc.  inputs
\* keeps, with the uref, whether it was queued, the value of next_frame_slice
\* it met and the number of urefs the output pipe had received.
AcceptAny ==
    /\ pc = "idle"
    /\ ~mp2vf.crashed
    /\ nurefs < MaxDiscUrefs
    /\ fed < Len(stream)
    /\ \E size \in 1..(Len(stream) - fed),
          dict \in {EmptyDict, TimedDict, StampedDict, DiscDict} :
          /\ size \in UrefSizes \/ size = Len(stream) - fed
          /\ nurefs + 1 = MaxDiscUrefs => size = Len(stream) - fed
          /\ dict = TimedDict => nurefs = 0
          /\ dict = StampedDict => nurefs = 1
          /\ dict = DiscDict => nurefs > 0
          /\ \E uref \in {[dict |-> dict,
                           block |-> SubSeq(stream, fed + 1, fed + size)]} :
                /\ mp2vf' = [InputBlock(mp2vf, uref) EXCEPT !.last = "input"]
                /\ inputs' = Append(inputs,
                                     [dict |-> dict, block |-> uref.block,
                                      queued |-> mp2vf.flow_def_input # NULL,
                                      slice |-> mp2vf.next_frame_slice,
                                      sent |-> Len(mp2vf.sink)])
                /\ fed' = fed + size
                /\ accepted' = IF mp2vf.flow_def_input = NULL THEN accepted
                               ELSE Append(accepted, uref.block)
                /\ pc' = IF mp2vf.flow_def_input = NULL THEN "idle"
                         ELSE "work"
    /\ nurefs' = nurefs + 1
    /\ UNCHANGED <<stream, nflowdefs, udict_vars>>

NextDisc == InputFlowDef \/ AcceptAny \/ Work \/ Return

InitDisc == stream \in DiscStreams /\ Allocated

SpecDisc == InitDisc /\ [][NextDisc]_vars

(***************************************************************************)
(* Properties of timestamps and discontinuities, checked under SpecDisc.   *)
(***************************************************************************)
\* the positions of the frames in what the output pipe received
FramePositions(sink) == { i \in 1..Len(sink) : sink[i].kind = "frame" }
\* the frame rate of the flow definition that describes the frame at i
FpsAt(sink, i) ==
    LET defs == { j \in 1..i : sink[j].kind = "flow_def" }
    IN sink[CHOOSE j \in defs : \A k \in defs : k <= j].dict.fps
\* the duration of the frame at i: k.duration when the frame carries it,
\* the period of the frame rate otherwise
FrameDuration(sink, i) ==
    IF sink[i].dict.duration # 0 - 1 THEN sink[i].dict.duration
    ELSE BaseDuration(FpsAt(sink, i))
\* no uref was dropped for want of a flow definition; the first uref
\* carried k.dts, the others neither k.dts nor f.disc
OnlyFirstTimed ==
    /\ inputs # <<>>
    /\ Len(accepted) = Len(inputs)
    /\ inputs[1].dict = TimedDict
    /\ \A i \in 2..Len(inputs) : inputs[i].dict = EmptyDict

\* C11: when the first uref carries k.dts and the later ones carry neither
\* a timestamp nor a discontinuity, the first frame carries that k.dts and
\* the k.dts of each later frame is the k.dts of the frame before it plus
\* the duration of the frame before it, hence strictly greater.
C11_DtsAdvancesByDuration ==
    OnlyFirstTimed
    => \A j \in FramePositions(mp2vf.sink) :
          LET before == { i \in FramePositions(mp2vf.sink) : i < j }
              prev == CHOOSE i \in before : \A k \in before : k <= i
          IN IF before = {}
             THEN mp2vf.sink[j].dict.ts.dts = TimedDict.ts.dts
             ELSE /\ mp2vf.sink[j].dict.ts.dts
                       = mp2vf.sink[prev].dict.ts.dts
                         + FrameDuration(mp2vf.sink, prev)
                  /\ mp2vf.sink[j].dict.ts.dts > mp2vf.sink[prev].dict.ts.dts

\* three frames of a stream cut into several urefs, the first frame with a
\* repeated field and hence twice the period of the frame rate
C11_Witness ==
    /\ OnlyFirstTimed
    /\ Len(inputs) >= 2
    /\ Len(Frames) = 3
    /\ Frames[2].dict.ts.dts - Frames[1].dict.ts.dts
          = 2 * (UCLOCK_FREQ \div 25)
    /\ Frames[3].dict.ts.dts - Frames[2].dict.ts.dts = UCLOCK_FREQ \div 25

\* the urefs carrying f.disc that met next_frame_slice false (slice = FALSE)
\* or true, among those that were queued
DiscInputs(slice) ==
    { i \in 1..Len(inputs) :
        inputs[i].dict.disc /\ inputs[i].queued /\ inputs[i].slice = slice }
\* the state right after upipe_mp2vf_input has queued a uref
JustQueued == pc = "work" /\ mp2vf.last = "input"
\* the octet stream holds the last uref given to input and nothing else
OnlyIncomingHeld ==
    /\ mp2vf.next_uref = Ptr(inputs[Len(inputs)].dict)
    /\ mp2vf.urefs = <<>>
    /\ mp2vf.block = inputs[Len(inputs)].block
    /\ mp2vf.next_uref_size = Len(mp2vf.block)
\* the frames that the output pipe received after its first n urefs
FramesAfter(n) == { j \in FramePositions(mp2vf.sink) : j > n }
\* the frame holds a group of pictures header with closed_gop set
ClosedGop(block) ==
    LET g == uref_block_find(block, 0, FIND_GOP)
    IN /\ g.found
       /\ InRange(block, g.offset, MP2VGOP_HEADER_SIZE)
       /\ mp2vgop_get_closedgop(Drop(block, g.offset))

\* the octet stream is cleared and got_discontinuity is set
DiscBeforeSliceClears ==
    JustQueued /\ Len(inputs) \in DiscInputs(FALSE)
    => OnlyIncomingHeld /\ mp2vf.got_discontinuity

Within(part, whole) ==
    \E o \in 0..(Len(whole) - Len(part)) :
       SubSeq(whole, o + 1, o + Len(part)) = part

DiscInsideSlices ==
    /\ pc = "idle"
    /\ pc' = "work"
    /\ Len(inputs') = Len(inputs) + 1
    /\ inputs'[Len(inputs')].dict.disc
    /\ mp2vf.next_frame_slice
\* what such a step does to the octet stream
MarkedAndAppended ==
    /\ ~mp2vf'.crashed
    /\ mp2vf'.block = mp2vf.block \o inputs'[Len(inputs')].block
    /\ mp2vf'.got_discontinuity = mp2vf.got_discontinuity
    /\ mp2vf.next_uref # NULL
    /\ mp2vf'.next_uref = Ptr([mp2vf.next_uref[1] EXCEPT !.error = TRUE])
    /\ mp2vf'.next_uref_size = mp2vf.next_uref_size
    /\ mp2vf'.urefs = Append(mp2vf.urefs,
                             [dict |-> inputs'[Len(inputs')].dict,
                              size |-> Len(inputs'[Len(inputs')].block)])
    /\ mp2vf'.next_frame_size = mp2vf.next_frame_size
    /\ mp2vf'.next_frame_offset = mp2vf.next_frame_offset
    /\ mp2vf'.next_frame_slice
    /\ mp2vf'.sink = mp2vf.sink

MaxControlFlowDefs == 2
\* payload urefs given to the pipe over its life
MaxControlUrefs == 2
\* references held on the pipe at the same time
MaxRefs == 2

\* sequence display extension: 16x16, no colour description
SEQDX == <<0, 0, 1, MP2VX_START_CODE, MP2VX_ID_SEQDX * 16, 0, 66, 0, 128>>

ControlScenarios ==
    { \* MPEG-2 with a display extension; the second I frame and the P
      \* frame have no sequence header
      <<SeqOk, SEQX(72, 1, MP2VSEQX_CHROMA_420), SEQDX, PicI, PICX, SLICE,
        PicI, PICX, SLICE, SLICE, PIC(1, MP2VPIC_TYPE_P), PICX, SLICE,
        END>>,
      \* MPEG-1; the second I frame has no sequence header, the third
      \* picture is left open
      <<SeqOk, PicI, SLICE, PicI, SLICE, SLICE, PIC(1, MP2VPIC_TYPE_P)>>,
      \* MPEG-1; a long second picture that no start code closes
      <<SeqOk, PicI, SLICE, PIC(1, MP2VPIC_TYPE_P), SLICE, SLICE, SLICE>>,
      \* MPEG-1; two sequences, each closed by the end code, with a group of
      \* pictures header met before the second sequence header
      <<SeqOk, PicI, SLICE, END, GOP(1, 0), SeqOk, PicI, SLICE, END>> }

ControlStreams == { Flatten(s) : s \in ControlScenarios }

\* input of a flow definition; inputs keeps the f.def strings given
InputNextFlowDef ==
    /\ pc = "idle"
    /\ ~mp2vf.crashed
    /\ ~mp2vf.dead
    /\ nflowdefs < MaxControlFlowDefs
    /\ \E def \in FlowDefs :
          /\ mp2vf' = [InputFlowDefinition(mp2vf, def)
                         EXCEPT !.last = "flow_def"]
          /\ inputs' = Append(inputs, def)
    /\ nflowdefs' = nflowdefs + 1
    /\ UNCHANGED <<pc, stream, fed, accepted, nurefs, udict_vars>>

\* upipe_mp2vf_input of a payload uref up to the call of upipe_mp2vf_work
AcceptPiece ==
    /\ pc = "idle"
    /\ ~mp2vf.crashed
    /\ ~mp2vf.dead
    /\ nurefs < MaxControlUrefs
    /\ fed < Len(stream)
    /\ \E size \in 1..(Len(stream) - fed) :
          /\ size \in UrefSizes \/ size = Len(stream) - fed
          /\ nurefs + 1 = MaxControlUrefs => size = Len(stream) - fed
          /\ \E uref \in {[dict |-> EmptyDict,
                           block |-> SubSeq(stream, fed + 1, fed + size)]} :
                /\ mp2vf' = [InputBlock(mp2vf, uref) EXCEPT !.last = "input"]
                /\ fed' = fed + size
                /\ accepted' = IF mp2vf.flow_def_input = NULL THEN accepted
                               ELSE Append(accepted, uref.block)
                /\ pc' = IF mp2vf.flow_def_input = NULL THEN "idle"
                         ELSE "work"
    /\ nurefs' = nurefs + 1
    /\ UNCHANGED <<stream, nflowdefs, inputs, udict_vars>>

\* upipe_control(UPIPE_MP2VF_SET_SEQUENCE_INSERTION, val)
SetSequenceInsertion ==
    /\ pc = "idle"
    /\ ~mp2vf.crashed
    /\ ~mp2vf.dead
    /\ \E val \in {0, 1, 2} :
          mp2vf' = [upipe_mp2vf_set_sequence_insertion(mp2vf, val)
                      EXCEPT !.last = "control"]
    /\ UNCHANGED <<pc, stream, fed, accepted, nflowdefs, nurefs, inputs,
                   udict_vars>>

Use ==
    /\ pc = "idle"
    /\ ~mp2vf.crashed
    /\ ~mp2vf.dead
    /\ mp2vf.refcount < MaxRefs
    /\ mp2vf' = [upipe_mp2vf_use(mp2vf) EXCEPT !.last = "use"]
    /\ UNCHANGED <<pc, stream, fed, accepted, nflowdefs, nurefs, inputs,
                   udict_vars>>

Release ==
    /\ pc = "idle"
    /\ ~mp2vf.crashed
    /\ ~mp2vf.dead
    /\ mp2vf' = upipe_mp2vf_release(mp2vf)
    /\ UNCHANGED <<pc, stream, fed, accepted, nflowdefs, nurefs, inputs,
                   udict_vars>>

NextControl ==
    \/ InputNextFlowDef
    \/ AcceptPiece
    \/ Work
    \/ Return
    \/ SetSequenceInsertion
    \/ Use
    \/ Release

InitControl == stream \in ControlStreams /\ Allocated

SpecControl == InitControl /\ [][NextControl]_vars

(***************************************************************************)
(* Properties of the control calls and of the life of the pipe, checked    *)
(* under SpecControl.                                                      *)
(***************************************************************************)
\* the frame that a closing step has sent downstream
FrameDelivered == SelectFrames(Delivered)[1]
\* a closing step that outputs an I frame which does not begin with a
\* sequence header
OutputsBareIFrame ==
    /\ ClosingStep
    /\ SelectFrames(Delivered) # <<>>
    /\ FrameDelivered.dict.type = MP2VPIC_TYPE_I
    /\ ~BeginsWithSequence(FrameOfStep)
\* the cached sequence header, extension and display extension, in order
CachedHeaders(w) ==
    w.sequence_header[1]
    \o (IF w.sequence_ext = NULL THEN <<>> ELSE w.sequence_ext[1])
    \o (IF w.sequence_display = NULL THEN <<>> ELSE w.sequence_display[1])

\* C12: an I frame that does not begin with a sequence header is output,
\* when sequence insertion is enabled, with the cached sequence header, then
\* the cached sequence extension if any, then the cached sequence display
\* extension if any, before its own octets, so that it begins with a
\* sequence start code, and with f.random; when insertion is disabled it is
\* output with its own octets only.
C12_SequenceInsertedBeforeIFrames ==
    [][OutputsBareIFrame
       => IF mp2vf.insert_sequence
          THEN /\ mp2vf.sequence_header # NULL
               /\ FrameDelivered.block = CachedHeaders(mp2vf) \o FrameOfStep
               /\ Take(FrameDelivered.block, 4)
                     = FIND_START \o <<MP2VSEQ_START_CODE>>
               /\ FrameDelivered.dict.random
          ELSE FrameDelivered.block = FrameOfStep]_vars

\* with insertion enabled, an I frame was output that begins with the
\* sequence header, holds the sequence extension and the display extension,
\* and is not a piece of the stream
C12_Witness ==
    /\ mp2vf.insert_sequence
    /\ \E j \in FramePositions(mp2vf.sink) :
          /\ mp2vf.sink[j].dict.type = MP2VPIC_TYPE_I
          /\ mp2vf.sink[j].dict.random
          /\ BeginsWithSequence(mp2vf.sink[j].block)
          /\ Within(SEQDX \o PicI, mp2vf.sink[j].block)
          /\ ~Within(mp2vf.sink[j].block, stream)

\* the step is upipe_mp2vf_input of a flow definition, of a payload uref
FlowDefStep == nflowdefs' = nflowdefs + 1
PayloadStep == nurefs' = nurefs + 1
\* the f.def given last does not begin with block.mpeg2video.
Refused(defs) == ~IsPrefix(EXPECTED_FLOW_DEF, defs[Len(defs)])
\* the step leaves the octet stream and the output as they were
NothingTaken ==
    /\ mp2vf'.block = mp2vf.block
    /\ mp2vf'.next_uref = mp2vf.next_uref
    /\ mp2vf'.urefs = mp2vf.urefs
    /\ mp2vf'.sink = mp2vf.sink
    /\ pc' = "idle"

\* C15: a uref whose f.def does not begin with block.mpeg2video. is
\* dropped: flow_def_error is thrown, the input flow definition and the
\* output flow definition are cleared.  From then on, and until a flow
\* definition with the expected prefix is given, a payload uref is dropped
\* with flow_def_error and reaches neither the octet stream nor the output;
\* after such a flow definition it is queued.
C15_RefusedFlowDefDropsPayload ==
    [][/\ FlowDefStep /\ Refused(inputs')
          => /\ Appended("flow_def_error")
             /\ mp2vf'.flow_def_input = NULL
             /\ mp2vf'.flow_def = NULL
             /\ NothingTaken
       /\ FlowDefStep /\ ~Refused(inputs')
          => /\ mp2vf'.flow_def_input = Ptr(inputs'[Len(inputs')])
             /\ mp2vf'.events = mp2vf.events
       /\ PayloadStep /\ (inputs = <<>> \/ Refused(inputs))
          => /\ Appended("flow_def_error")
             /\ NothingTaken
       /\ PayloadStep /\ inputs # <<>> /\ ~Refused(inputs)
          => /\ mp2vf'.block = mp2vf.block \o accepted'[Len(accepted')]
             /\ Len(accepted') = Len(accepted) + 1
             /\ pc' = "work"]_vars

\* frames were output under a valid flow definition; a flow definition
\* was then refused and the payload uref that followed was dropped, the
\* octet stream still holding octets of the first uref
C15_Witness ==
    /\ Len(inputs) = 2
    /\ ~Refused(Take(inputs, 1))
    /\ Refused(inputs)
    /\ nurefs = 2
    /\ Len(accepted) = 1
    /\ Frames # <<>>
    /\ mp2vf.block # <<>>
    /\ mp2vf.flow_def = NULL
    /\ mp2vf.flow_def_input = NULL
    /\ SubSeq(mp2vf.events, Len(mp2vf.events) - 1, Len(mp2vf.events))
          = <<"flow_def_error", "flow_def_error">>

\* nothing that the pipe allocates or is given is held any more
NothingHeld(w) ==
    /\ w.next_uref = NULL
    /\ w.urefs = <<>>
    /\ w.block = <<>>
    /\ w.flow_def_input = NULL
    /\ w.output = NULL
    /\ w.flow_def = NULL
    /\ w.sequence_header = NULL
    /\ w.sequence_ext = NULL
    /\ w.sequence_display = NULL
\* the number of times the event has been thrown
Thrown(w, event) ==
    Cardinality({ i \in 1..Len(w.events) : w.events[i] = event })

\* C20: the pipe is destroyed by the release that drops the last reference
\* and by no other call; dead is thrown then, once, and the urefs of the
\* octet stream, the input flow definition, the output and its flow
\* definition, and the cached sequence header, extension and display
\* extension are released.  A release that leaves a reference changes
\* nothing else.
C20_DestroyedAtLastRelease ==
    [][/\ mp2vf'.dead <=> mp2vf'.refcount = 0
       /\ mp2vf'.dead /\ ~mp2vf.dead
          => /\ mp2vf'.last = "release"
             /\ mp2vf.refcount = 1
             /\ Appended("dead")
       /\ mp2vf'.dead => NothingHeld(mp2vf') /\ Thrown(mp2vf', "dead") = 1
       /\ ~mp2vf'.dead => Thrown(mp2vf', "dead") = 0
       /\ mp2vf'.last = "release" /\ mp2vf.refcount > 1
          => mp2vf' = [mp2vf EXCEPT !.refcount = @ - 1,
                                    !.last = "release"]]_vars

\* the pipe was destroyed after it had output a frame, while it held a
\* uref, a second uref in the queue, and cached sequence headers
C20_Witness ==
    /\ mp2vf.dead
    /\ ~mp2vf.insert_sequence
    /\ Len(accepted) = 2
    /\ Frames # <<>>
    /\ Len(Flatten(accepted)) - Len(Flatten(Payloads(mp2vf.sink)))
          > Len(accepted[2])

(***************************************************************************)
(* Properties of single dictionary operations, checked under SpecDict.     *)
(***************************************************************************)
\* the step sets a string, given with its size, over a record of the same
\* (name, type) whose value is strictly larger
ShrinksString ==
    /\ nops' = nops + 1
    /\ lastop'.op = "set"
    /\ BaseType(lastop'.type) = UDICT_TYPE_STRING
    /\ udict_inline_get(udict.buffer, lastop'.name, lastop'.type).attr
          # NullAttr
    /\ udict_inline_get(udict.buffer, lastop'.name, lastop'.type).size
          > Len(lastop'.value)
\* where the value of the attribute set by the step was, and its size
ValueBefore == udict_inline_get(udict.buffer, lastop'.name, lastop'.type)
ValueAfter == udict_inline_get(udict'.buffer, lastop'.name, lastop'.type)

\* C17: setting a string attribute that exists with a strictly larger value
\* size writes the value in place: the record keeps its position and its
\* stored length, the used size and the umem of the dictionary are
\* unchanged, the octets of the old value from the new size up to the old
\* size are zero, and every octet outside the value is as it was.
C17_ShorterStringInPlace ==
    [][ShrinksString
       => /\ lastop'.ret
          /\ Len(udict'.buffer) = Len(udict.buffer)
          /\ udict'.umem_size = udict.umem_size
          /\ ValueAfter = ValueBefore
          /\ udict_inline_find(udict'.buffer, lastop'.name, lastop'.type)
                = udict_inline_find(udict.buffer, lastop'.name, lastop'.type)
          /\ \A i \in 0..(Len(udict.buffer) - 1) :
                At(udict'.buffer, i) =
                   IF i < ValueBefore.attr
                      \/ i >= ValueBefore.attr + ValueBefore.size
                   THEN At(udict.buffer, i)
                   ELSE IF i < ValueBefore.attr + Len(lastop'.value)
                   THEN lastop'.value[i - ValueBefore.attr + 1]
                   ELSE 0]_vars

\* a string of two octets was set over a string of five, between two other
\* records
C17_Witness ==
    /\ lastop.op = "set" /\ lastop.ret /\ lastop.existed /\ ~lastop.appended
    /\ BaseType(lastop.type) = UDICT_TYPE_STRING
    /\ udict_inline_get(udict.buffer, lastop.name, lastop.type).size
          > Len(lastop.value)
    /\ udict_inline_find(udict.buffer, lastop.name, lastop.type) > 0
    /\ udict_inline_get(udict.buffer, lastop.name, lastop.type).attr
          + udict_inline_get(udict.buffer, lastop.name, lastop.type).size
          < Len(udict.buffer) - 1

\* the records of a dictionary in buffer order, each with its key and
\* its octets (header and value)
RecordsOf(d) ==
    [i \in 1..(Len(Walk(d)) - 1) |->
        [key |-> KeyAt(d.buffer, Walk(d)[i]),
         octets |-> SubSeq(d.buffer, Walk(d)[i] + 1, Walk(d)[i + 1])]]
\* the positions of the records of a key
PositionsOf(d, k) ==
    { i \in 1..Len(RecordsOf(d)) : RecordsOf(d)[i].key = k }
\* a sequence without its element at position i
Without(s, i) == Take(s, i - 1) \o Drop(s, i)

DeleteStep == nops' = nops + 1 /\ lastop'.op = "delete"
DeletedKey == [name |-> lastop'.name, type |-> lastop'.type]

\* C23: delete returns true exactly when a record of the name and type
\* exists; after a successful delete the attribute cannot be got, the used
\* size has decreased by the length of that record, and the other records
\* keep their octets and their order; deleting an absent attribute returns
\* false and leaves the buffer and its size as they were.
C23_DeleteRemovesExactlyTheRecord ==
    [][DeleteStep
       => /\ lastop'.ret = (PositionsOf(udict, DeletedKey) # {})
          /\ udict'.umem_size = udict.umem_size
          /\ ~lastop'.ret => udict' = udict
          /\ lastop'.ret
             => \E i \in PositionsOf(udict, DeletedKey) :
                   /\ RecordsOf(udict') = Without(RecordsOf(udict), i)
                   /\ Len(udict'.buffer)
                      = Len(udict.buffer) - Len(RecordsOf(udict)[i].octets)
                   /\ udict_inline_get(udict'.buffer, lastop'.name,
                                       lastop'.type).attr = NullAttr
                   /\ udict_get(udict', lastop'.name, lastop'.type) = NULL
                   /\ At(udict'.buffer, Len(udict'.buffer) - 1)
                      = UDICT_TYPE_END]_vars

\* one of three records has been deleted; a named string and a shorthand
\* remain, in their order
C23_Witness ==
    /\ lastop.op = "delete" /\ lastop.ret
    /\ Len(RecordsOf(udict)) = 2
    /\ nops = 4
    /\ \E k \in Keys :
          /\ k.type = UDICT_TYPE_STRING
          /\ PositionsOf(udict, k) = {1}
    /\ PositionsOf(udict, [name |-> <<>>, type |-> UDICT_TYPE_CLOCK_PTS])
       = {2}

(***************************************************************************)
(* Single calls of the dictionary: a shorthand lookup for every type code  *)
(* that fits an octet, and a set with a size around the 16-bit limit of    *)
(* the length field, each on a dictionary that has just been built.        *)
(***************************************************************************)
\* the dictionaries the calls are made on
CallDicts ==
    { udict_inline_alloc(0),
      udict_set(udict_inline_alloc(0), <<97>>, UDICT_TYPE_STRING,
                <<120, 0>>).d,
      udict_set(udict_inline_alloc(0), <<>>, UDICT_TYPE_FLOW_DEF,
                <<120, 0>>).d }

\* the attributes set and the sizes asked for
CallKeys ==
    { [name |-> <<97>>, type |-> UDICT_TYPE_STRING],
      [name |-> <<97>>, type |-> UDICT_TYPE_OPAQUE],
      [name |-> <<>>, type |-> UDICT_TYPE_FLOW_DEF],
      [name |-> <<>>, type |-> UDICT_TYPE_CLOCK_PTS] }
CallSizes == {8, UINT16_MAX - 2, UINT16_MAX - 1, UINT16_MAX, UINT16_MAX + 1}

\* what the memory that follows inline_shorthands may hold
PastTheTable ==
    { [name |-> "", base_type |-> UDICT_TYPE_END, oob |-> TRUE],
      [name |-> "?", base_type |-> UDICT_TYPE_STRING, oob |-> TRUE],
      [name |-> "?", base_type |-> UDICT_TYPE_UNSIGNED, oob |-> TRUE] }

\* what a lookup may return: the entry itself, or for an entry read past
\* the table anything that memory may hold
Outcomes(shorthand) ==
    IF shorthand # NULL /\ shorthand[1].oob
    THEN { Ptr(e) : e \in PastTheTable }
    ELSE { shorthand }

InitCalls ==
    /\ FramerIdle
    /\ mgr = TheManager
    /\ umems = <<>>
    /\ udict \in CallDicts
    /\ shadow = NoAttributes
    /\ nops = 0
    /\ lastop = [op |-> "alloc"]

\* udict_inline_shorthand, called as set, get and next call it
CallShorthand ==
    /\ nops = 0
    /\ \E type \in (UDICT_TYPE_SHORTHAND + 1)..255 :
          \E e \in Outcomes(udict_inline_shorthand(type)) :
             lastop' = [op |-> "shorthand", type |-> type,
                        ret |-> e # NULL, entry |-> e]
    /\ nops' = 1
    /\ UNCHANGED <<mgr, udict, shadow, umems, framer_vars>>

\* udict_inline_name
CallName ==
    /\ nops = 0
    /\ \E type \in 0..255 :
          \E e \in Outcomes(udict_inline_name(type).entry) :
             lastop' = [op |-> "name", type |-> type,
                        ret |-> udict_inline_name(type).ret, entry |-> e]
    /\ nops' = 1
    /\ UNCHANGED <<mgr, udict, shadow, umems, framer_vars>>

\* udict_inline_set, in a build with assertions or without (ndebug)
CallSet ==
    /\ nops = 0
    /\ \E k \in CallKeys, attr_size \in CallSizes, ndebug \in BOOLEAN :
         \E r \in {udict_inline_set(udict, k.name, k.type, attr_size)},
            current \in {udict_inline_get(udict.buffer, k.name, k.type)},
            shorthand \in {IF k.type > UDICT_TYPE_SHORTHAND
                           THEN udict_inline_shorthand(k.type) ELSE NULL} :
            IF ~ndebug /\ SetFailsAssert(r, current, k.name, shorthand,
                                         attr_size)
            THEN /\ udict' = SetAborted(udict, r, current, k.name, k.type)
                 /\ lastop' = [op |-> "set", name |-> k.name,
                               type |-> k.type, attr_size |-> attr_size,
                               ret |-> "abort"]
            ELSE /\ udict' = r.d
                 /\ lastop' = [op |-> "set", name |-> k.name,
                               type |-> k.type, attr_size |-> attr_size,
                               ret |-> IF r.ret THEN "true" ELSE "false"]
    /\ nops' = 1
    /\ UNCHANGED <<mgr, shadow, umems, framer_vars>>

NextCalls == CallShorthand \/ CallName \/ CallSet

SpecCalls == InitCalls /\ [][NextCalls]_vars

(***************************************************************************)
(* Properties of single calls, checked under SpecCalls.                    *)
(***************************************************************************)
\* C18 as stated: udict_inline_name and udict_inline_shorthand resolve
\* exactly the 31 type codes SHORTHAND + 1 .. SHORTHAND + 31 to the entries
\* of the table, in order, f.disc first and p.tff last; for every other
\* code the lookup fails, and no lookup reads past the end of the table.
C18_ShorthandLookupExactRange ==
    /\ Len(inline_shorthands) = 31
    /\ inline_shorthands[1].name = "f.disc"
    /\ inline_shorthands[31].name = "p.tff"
    /\ lastop.op \in {"shorthand", "name"}
       => IF lastop.type \in
                (UDICT_TYPE_SHORTHAND + 1)..(UDICT_TYPE_SHORTHAND + 31)
          THEN /\ lastop.ret
               /\ lastop.entry
                     = Ptr([name |->
                               inline_shorthands[
                                  lastop.type - UDICT_TYPE_SHORTHAND].name,
                            base_type |->
                               inline_shorthands[
                                  lastop.type - UDICT_TYPE_SHORTHAND]
                                     .base_type,
                            oob |-> FALSE])
          ELSE ~lastop.ret /\ lastop.entry = NULL

\* the record of the attribute would need a length field above 65535
NeedsWiderLength(name, type, attr_size) ==
    IF type > UDICT_TYPE_SHORTHAND
    THEN IsVariable(BaseType(type)) /\ attr_size > UINT16_MAX
    ELSE Len(name) + 1 + attr_size > UINT16_MAX

\* C19 as stated: a set whose record would need a length field larger than
\* 65535 is rejected: it does not succeed, writes no record, and leaves
\* the octets, the used size and the umem size of the dictionary as they
\* were.
C19_OversizeSetRejected ==
    [][/\ nops' = 1
       /\ lastop'.op = "set"
       /\ NeedsWiderLength(lastop'.name, lastop'.type, lastop'.attr_size)
       => lastop'.ret # "true" /\ udict' = udict]_vars

(***************************************************************************)
(* Several dictionaries: one is built, then dictionaries are duplicated,   *)
(* and attributes are set and deleted in any of them.                      *)
(***************************************************************************)
MaxDupOps == 3

DupKeys ==
    { [name |-> <<97>>, type |-> UDICT_TYPE_STRING],
      [name |-> <<>>, type |-> UDICT_TYPE_FLOW_DEF],
      [name |-> <<>>, type |-> UDICT_TYPE_CLOCK_PTS] }

View(h) == ViewOf(udict, umems, h)

InitDup ==
    /\ FramerIdle
    /\ mgr = TheManager
    /\ \E d \in CallDicts :
          /\ umems = <<d>>
          /\ udict = <<[umem |-> 1, size |-> Len(d.buffer)]>>
    /\ shadow = NoAttributes
    /\ nops = 0
    /\ lastop = [op |-> "alloc", h |-> 1, ret |-> TRUE]

DupAny ==
    /\ nops < MaxDupOps
    /\ \E h \in 1..Len(udict) :
          /\ udict' = DupStruct(udict, umems, h)
          /\ umems' = DupUmem(udict, umems, h)
          /\ lastop' = [op |-> "dup", h |-> h, ret |-> TRUE]
    /\ nops' = nops + 1
    /\ UNCHANGED <<mgr, shadow, framer_vars>>

SetAny ==
    /\ nops < MaxDupOps
    /\ \E h \in 1..Len(udict), k \in DupKeys :
         \E value \in ValuesOf(BaseType(k.type)) :
            \E r \in {udict_set(View(h), k.name, k.type, value)} :
               /\ udict' = StoreStruct(udict, h, r.d)
               /\ umems' = StoreUmem(udict, umems, h, r.d)
               /\ lastop' = [op |-> "set", h |-> h, ret |-> r.ret]
    /\ nops' = nops + 1
    /\ UNCHANGED <<mgr, shadow, framer_vars>>

DeleteAny ==
    /\ nops < MaxDupOps
    /\ \E h \in 1..Len(udict), k \in DupKeys :
         \E r \in {udict_inline_delete(View(h), k.name, k.type)} :
            /\ udict' = StoreStruct(udict, h, r.d)
            /\ umems' = StoreUmem(udict, umems, h, r.d)
            /\ lastop' = [op |-> "delete", h |-> h, ret |-> r.ret]
    /\ nops' = nops + 1
    /\ UNCHANGED <<mgr, shadow, framer_vars>>

NextDup == DupAny \/ SetAny \/ DeleteAny

SpecDup == InitDup /\ [][NextDup]_vars

(***************************************************************************)
(* Properties of duplication, checked under SpecDup.                       *)
(***************************************************************************)
\* C16: udict_inline_dup returns a dictionary whose used size and used
\* octets are those of the original, which it leaves as it was; afterwards
\* the dictionaries are independent: a set or a delete on one leaves every
\* octet, the size and the umem of every other one unchanged.
C16_DupIdenticalAndIndependent ==
    [][/\ nops' = nops + 1 /\ lastop'.op = "dup"
          => /\ Len(udict') = Len(udict) + 1
             /\ ViewOf(udict', umems', Len(udict')).buffer
                   = View(lastop'.h).buffer
             /\ \A g \in 1..Len(udict) :
                   ViewOf(udict', umems', g) = View(g)
       /\ nops' = nops + 1 /\ lastop'.op \in {"set", "delete"}
          => /\ Len(udict') = Len(udict)
             /\ \A g \in 1..Len(udict) :
                   g # lastop'.h => ViewOf(udict', umems', g) = View(g)]_vars

\* a duplicate exists, and a set has just made it and its original differ
C16_Witness ==
    /\ Len(udict) = 2
    /\ lastop.op = "set" /\ lastop.ret
    /\ View(1).buffer # View(2).buffer
    /\ Len(View(1).buffer) > 1
    /\ Len(View(2).buffer) > 1


(***************************************************************************)
(* Properties of the output flow definition, checked under SpecFramer.     *)
(***************************************************************************)
\* the f.def and the planes of one of the three chroma formats
IsPlanar(dict) ==
    \E chroma \in {MP2VSEQX_CHROMA_420, MP2VSEQX_CHROMA_422,
                   MP2VSEQX_CHROMA_444} :
       /\ dict.def = DefOf(chroma)
       /\ dict.planes = PlanesOf(chroma)

\* C21 as stated: after every successful sequence parse the output flow
\* definition has the f.def block.mpeg2video.pic.planar8_420., _422. or
\* _444. with the matching y8, u8 and v8 planes; a stream without a
\* sequence extension gets 4:2:0.
C21_OutputFlowDefIsPlanar ==
    /\ mp2vf.flow_def # NULL => IsPlanar(mp2vf.flow_def[1])
    /\ \A i \in 1..Len(mp2vf.sink) :
          mp2vf.sink[i].kind = "flow_def" => IsPlanar(mp2vf.sink[i].dict)

(***************************************************************************)
(* Properties of the closing of a frame, checked under SpecSteps.          *)
(***************************************************************************)
\* the start code that the step meets, and its offset in the octet stream
MetCode == upipe_mp2vf_find(mp2vf).start
MetOffset == upipe_mp2vf_find(mp2vf).w.next_frame_size
\* a step of upipe_mp2vf_work that sends a frame downstream
EmittingStep == pc = "work" /\ SelectFrames(Delivered) # <<>>
EmittedFrame == SelectFrames(Delivered)[1].block

\* C22: a frame closed by the end-of-sequence start code holds the four
\* octets of that code, and the framer then loses sync with nothing
\* accumulated; a frame closed by a sequence, GOP or picture start code
\* stops before that code, which becomes the first four octets of the next
\* frame.
C22_EndCodeInsideOtherCodesHeldBack ==
    [][EmittingStep
       => /\ Len(SelectFrames(Delivered)) = 1
          /\ MetCode = MP2VEND_START_CODE
             => /\ EmittedFrame = Take(mp2vf.block, MetOffset + 4)
                /\ Drop(EmittedFrame, Len(EmittedFrame) - 4) = END
                /\ mp2vf'.block = Drop(mp2vf.block, MetOffset + 4)
                /\ ~mp2vf'.acquired
                /\ Appended("sync_lost")
                /\ mp2vf'.next_frame_size = 0
                /\ mp2vf'.next_frame_offset = 0 - 1
                /\ ~mp2vf'.next_frame_sequence
                /\ ~mp2vf'.next_frame_slice
          /\ MetCode \in {MP2VSEQ_START_CODE, MP2VGOP_START_CODE,
                          MP2VPIC_START_CODE}
             => /\ EmittedFrame = Take(mp2vf.block, MetOffset)
                /\ mp2vf'.block = Drop(mp2vf.block, MetOffset)
                /\ Take(mp2vf'.block, 4) = <<0, 0, 1, MetCode>>
                /\ mp2vf'.acquired
                /\ mp2vf'.events = mp2vf.events
                /\ mp2vf'.next_frame_size = 4
                /\ mp2vf'.next_frame_sequence
                   = (MetCode = MP2VSEQ_START_CODE)
                /\ mp2vf'.next_frame_offset
                   = (IF MetCode = MP2VPIC_START_CODE THEN 0 ELSE 0 - 1)]_vars

\* the frames of a stream come out in sequence: each of the earlier ones
\* was closed by the code the next one begins with, the last one by the
\* end-of-sequence code it ends with, and sync is lost
C22_Witness ==
    /\ mp2vf.last = "output"
    /\ ~mp2vf.acquired
    /\ mp2vf.next_frame_size = 0
    /\ Len(Frames) >= 3
    /\ Drop(Frames[Len(Frames)].block, Len(Frames[Len(Frames)].block) - 4)
       = END
    /\ \A code \in {MP2VSEQ_START_CODE, MP2VGOP_START_CODE} :
          \E i \in 2..Len(Frames) :
             Take(Frames[i].block, 4) = <<0, 0, 1, code>>

(***************************************************************************)
(* A manager and its dictionaries: the manager is created with sizes that  *)
(* may be left to the defaults; dictionaries are allocated (an allocation  *)
(* may fail), filled and freed.  udict is the sequence of the dictionaries *)
(* in use, inputs the arguments the manager was created with.              *)
(***************************************************************************)
MaxMgrOps == 4

MgrDepths == {0, 1}
MgrSizes == {0 - 1, 8, 200}
MgrAllocSizes == {0, 12, 300}

InitMgr ==
    /\ mp2vf = upipe_mp2vf_alloc(CHOOSE u \in Uninitialised : TRUE)
    /\ pc = "dict"
    /\ stream = <<>>
    /\ fed = 0
    /\ accepted = <<>>
    /\ nflowdefs = 0
    /\ nurefs = 0
    /\ \E udict_pool_depth \in MgrDepths, min_size \in MgrSizes,
          extra_size \in {0 - 1, 4} :
          /\ inputs = <<[udict_pool_depth |-> udict_pool_depth,
                         min_size |-> min_size, extra_size |-> extra_size]>>
          /\ mgr = udict_inline_mgr_alloc(udict_pool_depth, min_size,
                                          extra_size)
    /\ umems = <<>>
    /\ udict = <<>>
    /\ shadow = NoAttributes
    /\ nops = 0
    /\ lastop = [op |-> "mgr_alloc"]

\* udict_inline_alloc
AllocDict ==
    /\ nops < MaxMgrOps
    /\ \E size \in MgrAllocSizes, fails \in {"none", "malloc", "umem"},
          uninit \in MallocSizes :
          \E r \in {AllocIn(mgr, size, fails, uninit)} :
             /\ mgr' = r.mgr
             /\ udict' = IF r.udict = NULL THEN udict
                         ELSE Append(udict, r.udict[1])
             /\ lastop' = [op |-> "alloc", size |-> size, fails |-> fails,
                           ret |-> r.udict,
                           reused |-> mgr.udict_pool # <<>>]
    /\ nops' = nops + 1
    /\ UNCHANGED <<umems, shadow, framer_vars>>

\* a set that fits the umem of the dictionary
FillDict ==
    /\ nops < MaxMgrOps
    /\ \E h \in 1..Len(udict), value \in ValuesOf(UDICT_TYPE_STRING) :
          \E r \in {udict_set(udict[h], <<>>, UDICT_TYPE_FLOW_DEF, value)} :
             /\ r.d.umem_size = udict[h].umem_size
             /\ udict' = [udict EXCEPT ![h] = r.d]
             /\ lastop' = [op |-> "set", h |-> h, ret |-> r.ret]
    /\ nops' = nops + 1
    /\ UNCHANGED <<mgr, umems, shadow, framer_vars>>

\* udict_inline_free
FreeDict ==
    /\ nops < MaxMgrOps
    /\ \E h \in 1..Len(udict) :
          /\ mgr' = FreeIn(mgr, udict[h])
          /\ udict' = Take(udict, h - 1) \o Drop(udict, h)
          /\ lastop' = [op |-> "free", h |-> h, ret |-> TRUE]
    /\ nops' = nops + 1
    /\ UNCHANGED <<umems, shadow, framer_vars>>

NextMgr == AllocDict \/ FillDict \/ FreeDict

SpecMgr == InitMgr /\ [][NextMgr]_vars

(***************************************************************************)
(* Properties of allocation, checked under SpecMgr.                        *)
(***************************************************************************)
AllocStep == nops' = nops + 1 /\ lastop'.op = "alloc"

\* C24: udict_inline_alloc(size) returns, whether the structure is new or
\* comes from the pool of the manager, an empty dictionary (used size 1, a
\* single END octet, an iteration ends at once) in a umem of at least
\* max(size, min_size) octets, where a manager created with -1 for
\* min_size or extra_size has the defaults 128 and 64; when an allocation
\* fails it returns NULL and the manager gets no reference.
C24_AllocReturnsEmptyDictionary ==
    [][/\ inputs[1].min_size = 0 - 1 => mgr.min_size = 128
       /\ inputs[1].min_size > 0 => mgr.min_size = inputs[1].min_size
       /\ inputs[1].extra_size = 0 - 1 => mgr.extra_size = 64
       /\ inputs[1].extra_size > 0 => mgr.extra_size = inputs[1].extra_size
       /\ AllocStep
          => /\ (lastop'.ret # NULL)
                = \/ lastop'.fails = "none"
                   \/ (lastop'.fails = "malloc" /\ lastop'.reused)
             /\ lastop'.ret # NULL
                => /\ lastop'.ret[1].buffer = <<UDICT_TYPE_END>>
                   /\ Iterate(lastop'.ret[1]) = <<>>
                   /\ lastop'.ret[1].umem_size >= lastop'.size
                   /\ lastop'.ret[1].umem_size >= mgr.min_size
                   /\ mgr'.refcount = mgr.refcount + 1
                   /\ udict' = Append(udict, lastop'.ret[1])
             /\ lastop'.ret = NULL
                => /\ mgr'.refcount = mgr.refcount
                   /\ udict' = udict]_vars

\* a dictionary of a manager with default sizes has been allocated in a
\* structure that comes from the pool, where a freed dictionary left it
C24_Witness ==
    /\ lastop.op = "alloc" /\ lastop.reused /\ lastop.ret # NULL
    /\ inputs[1].min_size = 0 - 1
    /\ nops = 4
    /\ Len(udict) = 1
    /\ mgr.refcount = 2

(***************************************************************************)
(* Properties of the marking of frames, checked under SpecDisc on the      *)
(* steps of upipe_mp2vf_work that send a frame.                            *)
(***************************************************************************)
\* the frame sent by the step, with its attributes
Emitted == SelectFrames(Delivered)[1]
\* the frame holds a group of pictures header before its picture header
HasGop(block) ==
    /\ Take(block, 4) # <<0, 0, 1, MP2VPIC_START_CODE>>
    /\ uref_block_find(block, 0, FIND_GOP).found
\* bit 5 of the eighth octet of the group of pictures header
BrokenLink(block) ==
    /\ HasGop(block)
    /\ (At(block, uref_block_find(block, 0, FIND_GOP).offset + 7) \div 32)
          % 2 = 1
\* the picture header of the frame is where the framer recorded it (this
\* fails for a frame made of what follows a discontinuity that dropped the
\* start of the frame)
PictureAtOffset(block) ==
    SubSeq(block, mp2vf.next_frame_offset + 1, mp2vf.next_frame_offset + 4)
    = <<0, 0, 1, MP2VPIC_START_CODE>>
\* the temporal reference of the picture of the frame
TemporalReference(block) ==
    mp2vpic_get_temporalreference(Drop(block, mp2vf.next_frame_offset))
\* the numbering restarts: the picture of the frame, if its header is
\* where the framer recorded it, is numbered as if last_temporal_reference
\* were -1
NumberingRestarts ==
    PictureAtOffset(Emitted.block)
    =>
    /\ Emitted.dict.num
       = mp2vf.last_picture_number + TemporalReference(Emitted.block) + 1
    /\ mp2vf'.last_temporal_reference = TemporalReference(Emitted.block)

\* C25 as stated: the framer sets f.disc on an outgoing frame exactly when
\* the frame holds a group of pictures header before its picture header
\* and that header has broken_link set, or closed_gop clear while
\* got_discontinuity is true; last_temporal_reference is then reset to -1;
\* a frame without such a header is not marked by the framer.
C25_DiscOnlyWithGopHeader ==
    [][EmittingStep
       => IF /\ HasGop(Emitted.block)
             /\ \/ BrokenLink(Emitted.block)
                \/ ~ClosedGop(Emitted.block) /\ mp2vf.got_discontinuity
          THEN Emitted.dict.disc /\ NumberingRestarts
          ELSE Emitted.dict.disc = mp2vf.next_uref[1].disc]_vars

\* C25, amended: the framer sets f.disc on an outgoing frame exactly when a
\* group of pictures header of the frame has broken_link set, or
\* got_discontinuity is true and the frame holds no group of pictures
\* header with closed_gop set (it may hold none at all); whenever the frame
\* holds a group of pictures header before its picture header,
\* last_temporal_reference is reset to -1.  A frame the framer does not
\* mark keeps the f.disc of the uref it is cut from.
C25_DiscOnBrokenLinkOrDiscontinuity ==
    [][EmittingStep
       => /\ Emitted.dict.disc
             = \/ mp2vf.next_uref[1].disc
               \/ BrokenLink(Emitted.block)
               \/ ~ClosedGop(Emitted.block) /\ mp2vf.got_discontinuity
          /\ HasGop(Emitted.block) => NumberingRestarts]_vars

\* got_discontinuity is set, the third uref carries no f.disc, and the last
\* frame sent, cut from it, has no group of pictures header and carries
\* f.disc
C25_Witness ==
    /\ mp2vf.last = "output"
    /\ mp2vf.got_discontinuity
    /\ Len(inputs) = 3
    /\ ~inputs[3].dict.disc
    /\ Frames # <<>>
    /\ Frames[Len(Frames)].dict.disc
    /\ ~HasGop(Frames[Len(Frames)].block)
    /\ Within(Frames[Len(Frames)].block, inputs[3].block)

\* C26: got_discontinuity, once set by a discontinuity met before the first
\* slice, stays true until a frame is sent marked f.disc on its account
\* (the frame holds no group of pictures header with closed_gop set), and
\* is cleared by that step, so that later frames are not marked for the
\* same discontinuity.
C26_DiscontinuityHonouredOnce ==
    [][mp2vf.got_discontinuity
       => mp2vf'.got_discontinuity
          = ~(EmittingStep /\ ~ClosedGop(Emitted.block))]_vars

(***************************************************************************)
(* Properties of the clock attributes of the frames, checked under         *)
(* SpecDisc.                                                               *)
(***************************************************************************)
PtsNames == {"pts_orig", "pts", "pts_sys"}
\* the urefs that the step promotes to the head of the octet stream
Promoted == Take(mp2vf.urefs, Len(mp2vf.urefs) - Len(mp2vf'.urefs))
\* the value that the last of these urefs carrying the attribute gives it
RECURSIVE LastStamp(_, _)
LastStamp(urefs, n) ==
    IF urefs = <<>> THEN UINT64_MAX
    ELSE IF urefs[Len(urefs)].dict.ts[n] # UINT64_MAX
         THEN urefs[Len(urefs)].dict.ts[n]
         ELSE LastStamp(Take(urefs, Len(urefs) - 1), n)
\* the frames received so far that carry the attribute
Carrying(sink, n) ==
    { j \in FramePositions(sink) : sink[j].dict.ts[n] # UINT64_MAX }
\* the urefs queued so far that carry the attribute
Stamped(n) ==
    { i \in 1..Len(inputs') :
        inputs'[i].queued /\ inputs'[i].dict.ts[n] # UINT64_MAX }

\* C27: each frame sent carries, for each of the six clock attributes, the
\* value of the next_frame_ register if it holds one and no attribute
\* otherwise, whatever the uref it is cut from carried; the three PTS
\* registers are unset after every emission, until the consumption of the
\* frame promotes a uref carrying them, so that no more frames carry a PTS
\* than urefs carrying it were queued.
C27_ClockAttributesFromRegisters ==
    [][/\ EmittingStep
          => /\ Emitted.dict.ts = mp2vf.next_frame_ts
             /\ \A n \in PtsNames :
                   mp2vf'.next_frame_ts[n]
                   = LastStamp(Promoted, n)
       /\ \A n \in PtsNames :
             Cardinality(Carrying(mp2vf'.sink, n)) <= Cardinality(Stamped(n))
      ]_vars

\* the second uref carried k.pts and k.dts.orig; of two frames cut from it
\* the first was sent with them and the second without k.pts, with a later
\* k.dts.orig
C27_Witness ==
    /\ mp2vf.last = "output"
    /\ Len(inputs) >= 2
    /\ inputs[2].dict = StampedDict
    /\ \E i \in 1..Len(Frames) : \E j \in (i + 1)..Len(Frames) :
          /\ Within(Frames[i].block, inputs[2].block)
          /\ Within(Frames[j].block, inputs[2].block)
          /\ Frames[i].dict.ts.pts = StampedDict.ts.pts
          /\ Frames[i].dict.ts.dts_orig = StampedDict.ts.dts_orig
          /\ Frames[j].dict.ts.pts = UINT64_MAX
          /\ Frames[j].dict.ts.dts_orig > StampedDict.ts.dts_orig

(***************************************************************************)
(* Properties of the duration of the frames, checked under SpecDisc.       *)
(***************************************************************************)
\* the picture coding extension of the frame, looked for after its picture
\* header
PictureExtension(block) ==
    upipe_mp2vf_find_ext(
        block,
        uref_block_find(block, 0, <<0, 0, 1, MP2VPIC_START_CODE>>).offset
        + MP2VPIC_HEADER_SIZE)
\* the duration of the frame, from the frame rate and kind of the sequence
\* it belongs to and from its picture coding extension
DurationOf(block) ==
    IF PictureExtension(block).found
    THEN PicxDuration(mp2vf', Drop(block, PictureExtension(block).offset),
                      BaseDuration(mp2vf'.fps))
    ELSE BaseDuration(mp2vf'.fps)

\* C28: every frame sent carries as k.duration the frame period
\* 27000000 * fps.den / fps.num, multiplied by 1 + TFF if the sequence is
\* progressive and RFF is set, increased by half if the sequence is
\* interlaced, the picture a frame picture and RFF is set, halved if the
\* sequence is interlaced and the picture a single field; the DTS
\* registers holding a value advance by the same duration.
C28_DurationPublishedAndUsed ==
    [][EmittingStep
       => /\ Emitted.dict.duration = DurationOf(Emitted.block)
          /\ \A n \in TimestampNames \ PtsNames :
                mp2vf.next_frame_ts[n] # UINT64_MAX
                /\ LastStamp(Promoted, n) = UINT64_MAX
                => mp2vf'.next_frame_ts[n]
                   = mp2vf.next_frame_ts[n] + DurationOf(Emitted.block)
      ]_vars

(***************************************************************************)
(* The rates of the flow definition: streams whose sequence header and     *)
(* sequence extension encode chosen values of bit_rate and                 *)
(* vbv_buffer_size, given to the pipe as in SpecFramer.                    *)
(***************************************************************************)
\* sequence header with the 18 low bits of the bit rate and the 10 low
\* bits of the vbv buffer size
SEQRate(bitrate, vbvbuffer) ==
    <<0, 0, 1, MP2VSEQ_START_CODE, 1, 0, 16, MP2VSEQ_ASPECT_SQUARE * 16 + 3,
      bitrate \div 1024, (bitrate \div 4) % 256,
      (bitrate % 4) * 64 + 32 + vbvbuffer \div 32, (vbvbuffer % 32) * 8>>
\* sequence extension with the 12 high bits of the bit rate and the 8 high
\* bits of the vbv buffer size
SEQXRate(bitrate, vbvbuffer) ==
    <<0, 0, 1, MP2VX_START_CODE, MP2VX_ID_SEQX * 16 + 72 \div 16,
      (72 % 16) * 16 + 8 + MP2VSEQX_CHROMA_420 * 2,
      bitrate \div 128, (bitrate % 128) * 2 + 1, vbvbuffer, 0>>

\* the values encoded: low and high bits of the bit rate, low and high
\* bits of the vbv buffer size; ext tells whether the stream has a
\* sequence extension
RateCases ==
    { [ext |-> FALSE, lo |-> 20, hi |-> 0, vlo |-> 8, vhi |-> 0],
      [ext |-> FALSE, lo |-> 262143, hi |-> 0, vlo |-> 1023, vhi |-> 0],
      [ext |-> TRUE, lo |-> 20, hi |-> 0, vlo |-> 8, vhi |-> 0],
      [ext |-> TRUE, lo |-> 20, hi |-> 1, vlo |-> 0, vhi |-> 1],
      [ext |-> TRUE, lo |-> 251658, hi |-> 40, vlo |-> 1023, vhi |-> 127],
      [ext |-> TRUE, lo |-> 251659, hi |-> 40, vlo |-> 0, vhi |-> 128],
      [ext |-> TRUE, lo |-> 0, hi |-> 41, vlo |-> 1023, vhi |-> 255],
      [ext |-> TRUE, lo |-> 262143, hi |-> 4095, vlo |-> 1023, vhi |-> 255] }

RateStream(c) ==
    Flatten(IF c.ext
            THEN <<SEQRate(c.lo, c.vlo), SEQXRate(c.hi, c.vhi), PicI, PICX,
                   SLICE, END>>
            ELSE <<SEQRate(c.lo, c.vlo), PicI, SLICE, END>>)

InitRates == stream \in { RateStream(c) : c \in RateCases } /\ Allocated

SpecRates == InitRates /\ [][NextFramer]_vars

\* the flow definitions that the output pipe received
FlowDefsSent ==
    { mp2vf.sink[i].dict :
        i \in { j \in 1..Len(mp2vf.sink) : mp2vf.sink[j].kind = "flow_def" } }

\* C29: for every bit rate that the sequence header and the sequence
\* extension can encode, the octet rate of the output flow definition is
\* the integer bitrate * 400 / 8 = bitrate * 50 (said here by division, to
\* stay within the integers of the model checker), and for every vbv
\* buffer size the cpb buffer is vbvbuffer * 2048.
C29_RatesAreExact ==
    \A c \in RateCases :
       stream = RateStream(c)
       => \A d \in FlowDefsSent :
             /\ d.octetrate % 50 = 0
             /\ d.octetrate \div 50 = c.lo + c.hi * 262144
             /\ d.cpb_buffer = (c.vlo + c.vhi * 1024) * 2048

(***************************************************************************)
(* Allocation failures while a frame is built: the pipe taken one          *)
(* iteration at a time, as in SpecSteps, where uref_dup or                 *)
(* uref_block_resize in upipe_mp2vf_output_frame, or the setting of a      *)
(* clock attribute in upipe_mp2vf_parse_picture, may fail.  inputs keeps   *)
(* the failures drawn.                                                     *)
(***************************************************************************)
\* allocation failures over the life of the pipe
MaxFailures == 1

\* the calls that fail
Failures == {"uref_dup", "uref_block_resize", "uref_clock_set"}
\* upipe_mp2vf_parse_picture frees the uref when a clock attribute cannot
\* be set and returns true; upipe_mp2vf_handle_picture then reads the type
\* from the freed uref.  What this read gives is not defined: the octets
\* are still there and the frame goes on (intact), the attribute is not
\* found and upipe_mp2vf_output_frame frees the uref a second time
\* (missing), or the process dies (crash).
FreedReads == {"intact", "missing", "crash"}

\* the frame that upipe_mp2vf_output_frame builds
FrameOf(w) ==
    [dict |-> w.next_uref[1], block |-> Take(w.block, w.next_frame_size)]
\* what upipe_mp2vf_handle_sequence returns, if it is called
SequenceOf(w) ==
    IF w.next_frame_sequence
    THEN upipe_mp2vf_handle_sequence(w, Take(w.block, w.next_frame_size))
    ELSE Ret(w, TRUE)
\* upipe_mp2vf_parse_picture reaches the setting of a clock attribute
SetsTimestamp(w) ==
    /\ SequenceOf(w).ret
    /\ upipe_mp2vf_parse_picture(SequenceOf(w).w, FrameOf(w)).ret
    /\ SequenceOf(w).w.next_frame_ts # NoTimestamps

\* p: what upipe_mp2vf_parse_picture computed before the attribute could
\* not be set
FreedFrame(p, read) ==
    IF read = "intact"
    THEN OutputHandledFrame(
            HandleParsedPicture([p EXCEPT !.w = upipe_throw(@, "aerror")]))
    ELSE IF read = "missing" THEN Ret(upipe_throw(p.w, "aerror"), FALSE)
    ELSE Ret([upipe_throw(p.w, "aerror") EXCEPT !.crashed = TRUE], FALSE)

\* upipe_mp2vf_output_frame when the call fails
FailingOutputFrame(w, fails, read) ==
    IF fails = "uref_clock_set"
    THEN FreedFrame(
            upipe_mp2vf_parse_picture(SequenceOf(w).w, FrameOf(w)), read)
    ELSE Ret(upipe_throw(w, "aerror"), TRUE)

\* upipe_mp2vf_input of the whole stream as one uref, which may carry
\* k.dts, up to the call of upipe_mp2vf_work
AcceptTimed ==
    /\ pc = "idle"
    /\ ~mp2vf.crashed
    /\ nurefs < MaxSteppedUrefs
    /\ fed < Len(stream)
    /\ \E dict \in {EmptyDict, TimedDict} :
          \E uref \in {[dict |-> dict, block |-> Drop(stream, fed)]} :
             /\ mp2vf' = [InputBlock(mp2vf, uref) EXCEPT !.last = "input"]
             /\ accepted' = IF mp2vf.flow_def_input = NULL THEN accepted
                            ELSE Append(accepted, uref.block)
             /\ pc' = IF mp2vf.flow_def_input = NULL THEN "idle"
                      ELSE "work"
    /\ fed' = Len(stream)
    /\ nurefs' = nurefs + 1
    /\ UNCHANGED <<stream, nflowdefs, inputs, udict_vars>>

\* one iteration of the loop of upipe_mp2vf_work that closes a frame, with
\* a failing call
WorkFailing ==
    /\ pc = "work"
    /\ WorkContinues(mp2vf)
    /\ Len(inputs) < MaxFailures
    /\ \E f \in {upipe_mp2vf_find(mp2vf)} :
          /\ ClosesFrame(f.w, f.start)
          /\ \E w \in {IF f.start = MP2VEND_START_CODE
                       THEN [f.w EXCEPT !.next_frame_size = @ + 4]
                       ELSE f.w},
                fails \in Failures, read \in FreedReads :
                /\ fails = "uref_clock_set" => SetsTimestamp(w)
                /\ fails # "uref_clock_set" => read = "intact"
                /\ mp2vf' = WorkOutputReturned(
                                FailingOutputFrame(w, fails, read), f.start)
                /\ inputs' = Append(inputs, [fails |-> fails, read |-> read])
    /\ UNCHANGED <<pc, stream, fed, accepted, nflowdefs, nurefs, udict_vars>>

NextFailures == InputFlowDef \/ AcceptTimed \/ Work \/ WorkFailing \/ Return

SpecFailures == InitSteps /\ [][NextFailures]_vars

\* a step in which a call fails
FailingStep == Len(inputs') > Len(inputs)
\* upipe_mp2vf_handle_picture reads the uref that
\* upipe_mp2vf_parse_picture has freed
FreedUrefRead == inputs'[Len(inputs')].fails = "uref_clock_set"

\* the step throws the event
Throws(event) ==
    \E i \in (Len(mp2vf.events) + 1)..Len(mp2vf'.events) :
       mp2vf'.events[i] = event

\* C30: when uref_dup or uref_block_resize fails in
\* upipe_mp2vf_output_frame, or a clock attribute cannot be set in
\* upipe_mp2vf_parse_picture, aerror is thrown, the frame is not sent to
\* the output, no uref is read or sent after it has been freed, and the
\* pipe goes on with the rest of its input.
C30_AllocationFailureDropsTheFrame ==
    [][FailingStep
       => /\ Throws("aerror")
          /\ SelectFrames(Delivered) = <<>>
          /\ ~FreedUrefRead
          /\ ~mp2vf'.crashed]_vars

(***************************************************************************)
(* Properties of the events of the pipe, checked under SpecControl.        *)
(***************************************************************************)
SyncEvents(w) ==
    SelectSeq(w.events, LAMBDA e : e \in {"sync_acquired", "sync_lost"})
\* ready comes first and once, dead last and once, when the pipe is
\* destroyed; between them sync_acquired and sync_lost alternate, beginning
\* with sync_acquired, and the pipe is acquired after each sync_acquired
EventsInOrder(w) ==
    /\ w.events # <<>>
    /\ \A i \in 1..Len(w.events) :
          /\ w.events[i] = "ready" <=> i = 1
          /\ w.events[i] = "dead" <=> w.dead /\ i = Len(w.events)
    /\ \A i \in 1..Len(SyncEvents(w)) :
          SyncEvents(w)[i]
          = IF i % 2 = 1 THEN "sync_acquired" ELSE "sync_lost"
    /\ w.acquired <=> Len(SyncEvents(w)) % 2 = 1

\* C31: over the life of the pipe ready is the first event and dead the
\* last; sync_acquired and sync_lost alternate, beginning with
\* sync_acquired; sync_acquired is thrown only by a step that meets a
\* sequence start code while sync is not acquired, sync_lost only while
\* sync is acquired, by a step that closes a frame which fails, or closes
\* a frame on a code that is none of sequence, group of pictures and
\* picture (the end of sequence code among them).
C31_SyncEventsAlternate ==
    [][/\ EventsInOrder(mp2vf')
       /\ Throws("sync_acquired")
          => /\ pc = "work"
             /\ ~mp2vf.acquired
             /\ MetCode = MP2VSEQ_START_CODE
       /\ Throws("sync_lost")
          => /\ pc = "work"
             /\ mp2vf.acquired
             /\ \/ mp2vf'.last = "erroneous"
                \/ /\ mp2vf'.last = "output"
                   /\ MetCode \notin {MP2VSEQ_START_CODE, MP2VGOP_START_CODE,
                                      MP2VPIC_START_CODE}]_vars

\* the pipe was destroyed after it had acquired sync, lost it and acquired
\* it again
C31_Witness ==
    /\ mp2vf.dead
    /\ Len(SyncEvents(mp2vf)) >= 3
    /\ mp2vf.events[Len(mp2vf.events)] = "dead"

(***************************************************************************)
(* Termination of upipe_mp2vf_work, checked under SpecSteps: a quantity    *)
(* that every iteration of the loop decreases and that cannot go below 0.  *)
(***************************************************************************)
\* twice the octets held, less the octets already scanned
Remaining(w) == 2 * Len(w.block) - w.next_frame_size

\* C32: every call of upipe_mp2vf_input returns: each iteration of the
\* loop of upipe_mp2vf_work leaves the process alive and either consumes
\* octets of the octet stream or moves next_frame_size forward, past a
\* start code and within the octets held, so that the loop ends after
\* finitely many iterations and the call returns.
C32_EveryInputReturns ==
    [][pc = "work"
       => /\ ~mp2vf'.crashed
          /\ pc' = "work"
             => /\ \/ Len(mp2vf'.block) < Len(mp2vf.block)
                   \/ mp2vf'.next_frame_size > mp2vf.next_frame_size
                /\ mp2vf'.next_frame_size <= Len(mp2vf'.block)
                /\ Remaining(mp2vf') < Remaining(mp2vf)
                /\ Remaining(mp2vf') >= 0]_vars


(***************************************************************************)
(* Properties of the buffer of a dictionary, checked under SpecDict.       *)
(***************************************************************************)
\* udict_inline_set keeps the record where it is: the attribute exists and
\* its base type has a fixed width, or the size is the same, or it is a
\* string that gets shorter
SetInPlace(d, name, type, attr_size) ==
    \E current \in {udict_inline_get(d.buffer, name, type)} :
        /\ current.attr # NullAttr
        /\ \/ ~IsVariable(BaseType(type))
           \/ current.size = attr_size
           \/ BaseType(type) = UDICT_TYPE_STRING /\ current.size > attr_size

\* the step is a successful set that appends a record
AppendingSet ==
    /\ nops' # nops
    /\ lastop'.op = "set"
    /\ lastop'.ret
    /\ ~SetInPlace(udict, lastop'.name, lastop'.type, Len(lastop'.value))

\* the step is a successful set that leaves the record where it is
OverwritingSet ==
    /\ nops' # nops
    /\ lastop'.op = "set"
    /\ lastop'.ret
    /\ SetInPlace(udict, lastop'.name, lastop'.type, Len(lastop'.value))

Reallocates == udict'.umem_size # udict.umem_size

\* C33 as the specification states it: a set reallocates if and only if
\* the used size after the append exceeds the capacity.
C33_ReallocatesWhenExceeding ==
    [][AppendingSet
       => (Reallocates <=> Len(udict'.buffer) > udict.umem_size)]_vars

\* C33: a set that appends reallocates the buffer if and only if the used
\* size after the append reaches or exceeds the capacity, and then leaves
\* extra_size free octets; a set that overwrites a record in place never
\* reallocates; the used size never exceeds the capacity.
C33_ReallocatesWhenReaching ==
    /\ [](Len(udict.buffer) <= udict.umem_size)
    /\ [][/\ AppendingSet
             => /\ Reallocates <=> Len(udict'.buffer) >= udict.umem_size
                /\ Reallocates
                   => udict'.umem_size - Len(udict'.buffer) >= MgrExtraSize
          /\ OverwritingSet => ~Reallocates]_vars

\* the first set filled the minimal buffer exactly and reallocated it
C33_Witness ==
    /\ nops = 1
    /\ lastop.op = "set"
    /\ lastop.realloc
    /\ Len(udict.buffer) = MgrMinSize
    /\ udict.umem_size = MgrMinSize + MgrExtraSize


(***************************************************************************)
(* The dictionary with a caller that passes udict_inline_set a size that   *)
(* is not the width of the base type: SpecDict with one more operation.    *)
(* A dictionary whose walk no longer ends on its END is left alone by the  *)
(* other operations.                                                       *)
(***************************************************************************)
\* values of 4 octets stored in an attribute of 8
SizedValues == { <<1, 2, 3, 4>> }

Aligned == Walk(udict)[Len(Walk(udict))] = Len(udict.buffer) - 1

DictSetSized ==
    /\ nops < MaxOps
    /\ \E value \in SizedValues :
         \E r \in {udict_set(udict, <<>>, UDICT_TYPE_CLOCK_PTS, value)} :
            /\ udict' = r.d
            /\ lastop' = [op |-> "set", name |-> <<>>,
                          type |-> UDICT_TYPE_CLOCK_PTS,
                          value |-> value, ret |-> r.ret,
                          realloc |-> r.d.umem_size # udict.umem_size,
                          existed |->
                              udict_inline_get(udict.buffer, <<>>,
                                  UDICT_TYPE_CLOCK_PTS).attr # NullAttr,
                          appended |->
                              r.attr # udict_inline_get(udict.buffer, <<>>,
                                           UDICT_TYPE_CLOCK_PTS).attr]
    /\ nops' = nops + 1
    /\ UNCHANGED <<mgr, shadow, umems, framer_vars>>

AlignedSet == Aligned /\ DictSet
AlignedDelete == Aligned /\ DictDelete
AlignedDup == Aligned /\ DictDup

NextSizes == AlignedSet \/ AlignedDelete \/ AlignedDup \/ DictSetSized

SpecSizes == InitDict /\ [][NextSizes]_vars

\* the step is a successful set that appends a record of a shorthand
\* attribute whose base type has a fixed width
AppendingFixedWidth ==
    /\ AppendingSet
    /\ lastop'.type > UDICT_TYPE_SHORTHAND
    /\ ~IsVariable(BaseType(lastop'.type))

\* C34: a set that appends a record of a shorthand attribute with a
\* fixed-width base type adds 1 + W octets to the used size, W being the
\* width of the base type, whatever the size the caller passed, which is
\* what udict_inline_next skips from the record, landing on the END.
C34_FixedWidthRecords ==
    [][AppendingFixedWidth
       => /\ Len(udict'.buffer)
               = Len(udict.buffer) + 1 + AttrSize(BaseType(lastop'.type))
          /\ udict_inline_next(udict'.buffer, Len(udict.buffer) - 1)
               = Len(udict'.buffer) - 1]_vars


(***************************************************************************)
(* The frame rate read by upipe_mp2vf_parse_picture, checked under         *)
(* SpecSteps.                                                              *)
(***************************************************************************)
\* the step dies in the division of upipe_mp2vf_parse_picture
DividesByZero ==
    /\ ~mp2vf.crashed
    /\ mp2vf'.crashed
    /\ mp2vf'.fps.num = 0

\* C35: upipe_mp2vf_parse_picture never reaches the division by fps.num
\* with a numerator that is zero, whatever the inputs, repeated invalid
\* sequence headers included.
C35_NoDivisionByZeroRate ==
    [][pc = "work" => ~DividesByZero]_vars


(***************************************************************************)
(* Properties of the accumulation registers, checked under SpecDisc.       *)
(***************************************************************************)
\* C36: between two calls of upipe_mp2vf_input the accumulation registers
\* refer to octets the octet stream holds: next_frame_size is at most the
\* number of octets queued and next_frame_offset, when it is set, leaves
\* room for a start code before next_frame_size, a discontinuity met in
\* the headers included.
C36_RegistersWithinQueue ==
    (pc = "idle" /\ ~mp2vf.crashed)
    => /\ mp2vf.next_frame_size <= Len(mp2vf.block)
       /\ mp2vf.next_frame_offset # 0 - 1
          => mp2vf.next_frame_offset + 4 <= mp2vf.next_frame_size


\* C37: whenever next_frame_slice is true, next_uref is not NULL and
\* next_frame_offset is set, so that upipe_mp2vf_input, on a discontinuity
\* met inside the slices, never marks f.error on a NULL uref.
C37_SliceImpliesQueuedPicture ==
    /\ []((mp2vf.next_frame_slice /\ ~mp2vf.dead)
          => /\ mp2vf.next_uref # NULL
             /\ mp2vf.next_frame_offset # 0 - 1)
    /\ [][pc = "idle" /\ ~mp2vf.crashed => ~mp2vf'.crashed]_vars

\* a uref carrying f.disc has just been input inside the slices of a
\* frame, and the uref at the head of the octet stream is marked f.error
C37_Witness ==
    /\ pc = "work"
    /\ mp2vf.last = "input"
    /\ mp2vf.next_frame_slice
    /\ ~mp2vf.got_discontinuity
    /\ mp2vf.next_uref # NULL
    /\ mp2vf.next_uref[1].error


(***************************************************************************)
(* The urefs carrying a flow definition that upipe_mp2vf_input is handed,  *)
(* each with what the code does to it: umems holds, for each of them in    *)
(* the order of input, whether uref_free has been called on it (freed) and *)
(* whether flow_def_input points to it (stored).                           *)
(***************************************************************************)
\* upipe_mp2vf_input of a uref carrying f.def: a refused one is freed with
\* the one flow_def_input points to; an accepted one is assigned to
\* flow_def_input
TrackFlowDefinition(urefs, def) ==
    IF ~IsPrefix(EXPECTED_FLOW_DEF, def)
    THEN Append([i \in DOMAIN urefs |->
                    [freed |-> urefs[i].freed \/ urefs[i].stored,
                     stored |-> FALSE]],
                [freed |-> TRUE, stored |-> FALSE])
    ELSE Append([i \in DOMAIN urefs |-> [urefs[i] EXCEPT !.stored = FALSE]],
                [freed |-> FALSE, stored |-> TRUE])

\* upipe_mp2vf_release: the last release frees the uref flow_def_input
\* points to
TrackRelease(urefs, dead) ==
    IF ~dead THEN urefs
    ELSE [i \in DOMAIN urefs |->
             [freed |-> urefs[i].freed \/ urefs[i].stored, stored |-> FALSE]]

OwnedFlowDef ==
    /\ pc = "idle"
    /\ ~mp2vf.crashed
    /\ ~mp2vf.dead
    /\ nflowdefs < MaxControlFlowDefs
    /\ \E def \in FlowDefs :
          /\ mp2vf' = [InputFlowDefinition(mp2vf, def)
                         EXCEPT !.last = "flow_def"]
          /\ inputs' = Append(inputs, def)
          /\ umems' = TrackFlowDefinition(umems, def)
    /\ nflowdefs' = nflowdefs + 1
    /\ UNCHANGED <<pc, stream, fed, accepted, nurefs, mgr, udict, shadow,
                   nops, lastop>>

OwnedRelease ==
    /\ pc = "idle"
    /\ ~mp2vf.crashed
    /\ ~mp2vf.dead
    /\ mp2vf' = upipe_mp2vf_release(mp2vf)
    /\ umems' = TrackRelease(umems, upipe_mp2vf_release(mp2vf).dead)
    /\ UNCHANGED <<pc, stream, fed, accepted, nflowdefs, nurefs, inputs, mgr,
                   udict, shadow, nops, lastop>>

NextOwned == OwnedFlowDef \/ AcceptPiece \/ Work \/ Return \/ OwnedRelease

SpecOwned == InitControl /\ [][NextOwned]_vars

\* C38: every uref carrying a flow definition that was handed to
\* upipe_mp2vf_input is either freed or the one flow_def_input points to,
\* never both and never neither, so that the flow definition stored before
\* a second valid one is received has been released; once the pipe is
\* destroyed all of them are freed.
C38_EveryFlowDefinitionAccountedFor ==
    /\ \A i \in DOMAIN umems : umems[i].freed # umems[i].stored
    /\ mp2vf.dead => \A i \in DOMAIN umems : umems[i].freed


\* C39: every frame the framer has output holds exactly one picture start
\* code: a frame is output only when next_frame_offset is set, and a second
\* picture start code closes the frame before it is included.
C39_OnePictureStartCodePerFrame ==
    \A i \in FramePositions(mp2vf.sink) :
        Cardinality(StartCodes(mp2vf.sink[i].block, MP2VPIC_START_CODE)) = 1


(***************************************************************************)
(* The numbering of pictures: the pipe taken one iteration at a time on    *)
(* streams made of groups of pictures whose temporal references are a      *)
(* permutation of 0..n-1.                                                  *)
(***************************************************************************)
GopScenarios ==
    { \* two groups, of two and three pictures, in decode order
      <<SeqOk, GOP(1, 0), PIC(1, MP2VPIC_TYPE_I), SLICE,
        PIC(0, MP2VPIC_TYPE_B), SLICE,
        GOP(0, 0), PIC(2, MP2VPIC_TYPE_I), SLICE, PIC(0, MP2VPIC_TYPE_B),
        SLICE, PIC(1, MP2VPIC_TYPE_B), SLICE, END>>,
      \* three groups, each after its sequence header
      <<SeqOk, GOP(1, 0), PicI, SLICE, PIC(1, MP2VPIC_TYPE_P), SLICE,
        SeqOk, GOP(1, 0), PicI, SLICE,
        SeqOk, GOP(0, 0), PIC(1, MP2VPIC_TYPE_I), SLICE,
        PIC(0, MP2VPIC_TYPE_B), SLICE, END>>,
      IBBP }

GopStreams == { Flatten(s) : s \in GopScenarios }

InitGops == stream \in GopStreams /\ Allocated

SpecGops == InitGops /\ [][NextSteps]_vars

\* the step changes one of the two registers of the numbering
NumberingChanges ==
    \/ mp2vf'.last_temporal_reference # mp2vf.last_temporal_reference
    \/ mp2vf'.last_picture_number # mp2vf.last_picture_number
\* last_temporal_reference as the group of pictures header of the frame,
\* if any, leaves it
ReferenceBefore(block) ==
    IF HasGop(block) THEN 0 - 1 ELSE mp2vf.last_temporal_reference
\* the p.num of the frames output so far
Numbers == { Frames[i].dict.num : i \in 1..Len(Frames) }

\* C40: last_temporal_reference and last_picture_number change only in a
\* step that closes a frame: both advance when the temporal reference of
\* its picture exceeds last_temporal_reference, and a group of pictures
\* header resets last_temporal_reference to -1 first; the frames output
\* carry pairwise distinct p.num, and once every picture of the stream has
\* been output these numbers are consecutive across the groups.
C40_NumberingAdvancesWithTemporalReference ==
    /\ [][NumberingChanges
          => /\ ClosingStep
             /\ \/ /\ HasGop(FrameOfStep)
                   /\ mp2vf'.last_temporal_reference = 0 - 1
                   /\ mp2vf'.last_picture_number = mp2vf.last_picture_number
                \/ /\ TemporalReference(FrameOfStep)
                        > ReferenceBefore(FrameOfStep)
                   /\ mp2vf'.last_temporal_reference
                        = TemporalReference(FrameOfStep)
                   /\ mp2vf'.last_picture_number
                        = mp2vf.last_picture_number
                          + TemporalReference(FrameOfStep)
                          - ReferenceBefore(FrameOfStep)]_vars
    /\ [](/\ Cardinality(Numbers) = Len(Frames)
          /\ Len(Frames)
               = Cardinality(StartCodes(stream, MP2VPIC_START_CODE))
             => Numbers = 1..Len(Frames))

\* the five pictures of the two groups have been output, the second group
\* numbered after the first
C40_Witness ==
    /\ Len(Frames) = 5
    /\ [i \in 1..5 |-> Frames[i].dict.num] = <<2, 1, 5, 3, 4>>
    /\ mp2vf.last_temporal_reference = 2
    /\ mp2vf.last_picture_number = 5

====
